---- MODULE Spec2Model ----
(***************************************************************************)
(* Model of the RFP question-answering pipeline wired in                   *)
(* backend/app/agents/rfp_graph.py (the graph exported as rfp_app), of     *)
(* the risk sentinel (backend/app/agents/risk_sentinel.py) and of the      *)
(* deterministic risk scorer (backend/skills/risk_score_calculator).       *)
(*                                                                         *)
(* Strings are modelled by the observations the code makes on them: their  *)
(* length, the amount of surrounding whitespace strip() removes, whether   *)
(* their lower-cased form contains "error" or "no hay documentos", and     *)
(* whether they start with "Error en el agente".  Python None / True /     *)
(* False in optional fields are the strings "None" / "True" / "False".     *)
(***************************************************************************)
EXTENDS Integers, Sequences, FiniteSets, TLC

VARIABLES
    state,                      \* AgentState: the single value flowing through the graph
    pc,                         \* name of the node the engine runs next, or "END"
    trace,                      \* ghost: one entry per node execution, in order
    max_audit_revisions,        \* Settings.max_audit_revisions
    RISK_CALCULATOR_AVAILABLE,  \* whether the scorer skill could be imported
    call,                       \* a function or method called on its own:
                                \* its arguments and what it returned
    response_cache,             \* _response_cache._store, least recently used first
    now,                        \* time.time()
    requests,                   \* the /chat requests waiting for their pipeline run
    runs,                       \* pipeline runs started so far
    last,                       \* the last request that ended, and how
    cache_ttl_seconds,          \* settings.cache_ttl_seconds
    cache_max_size              \* settings.cache_max_size

Api == <<response_cache, now, requests, runs, last, cache_ttl_seconds, cache_max_size>>

vars == <<state, pc, trace, max_audit_revisions, RISK_CALCULATOR_AVAILABLE, call, Api>>

\* ------------------------------------------------------------------ bounds
MaxDocs == 2        \* documents similarity_search may return
MaxFactors == 5     \* risk factors in one audit reply

\* ------------------------------------------------------- program constants
AUTO_APPROVE_LEN == 50          \* risk_audit: answers shorter than this are approved
LEGACY_MAX_REVISIONS == 2       \* literal bound in should_continue_after_audit
FALLBACK_DOCS == 5              \* grade_documents_node: state["context"][:5]
MinAuditRevisions == 0          \* Field(ge=0)
MaxAuditRevisions == 10         \* Field(le=10)

None == "None"
PyTrue == "True"
PyFalse == "False"

\* ------------------------------------------------------------------- texts
Text(id, len, pad, err, nodocs, pre) ==
    [id |-> id, len |-> len, pad |-> pad, err |-> err, nodocs |-> nodocs, pre |-> pre]

EmptyText == Text("llm", 0, 0, FALSE, FALSE, FALSE)
NoneText == Text("None", 0, 0, FALSE, FALSE, FALSE)

\* the fixed messages of the program, with the features of their literal text
NO_DOCUMENTS_MESSAGE == Text("NO_DOCUMENTS_MESSAGE", 363, 0, FALSE, TRUE, FALSE)
NO_INFO_MESSAGE == Text("NO_INFO_MESSAGE", 61, 0, FALSE, FALSE, FALSE)
SPECIALIST_ERROR_MESSAGE == Text("SPECIALIST_ERROR_MESSAGE", 74, 0, TRUE, FALSE, TRUE)
QUANT_ERROR_MESSAGE == Text("QUANT_ERROR_MESSAGE", 40, 0, TRUE, FALSE, FALSE)
QUANT_NO_DATA_MESSAGE == Text("QUANT_NO_DATA_MESSAGE", 59, 0, FALSE, FALSE, FALSE)
QUANT_ONE_VALUE_MESSAGE == Text("QUANT_ONE_VALUE_MESSAGE", 30, 0, FALSE, FALSE, FALSE)
QUANT_VALUES_MESSAGE == Text("QUANT_VALUES_MESSAGE", 36, 0, FALSE, FALSE, FALSE)

\* str.strip(): removes the surrounding whitespace
Strip(t) == [t EXCEPT !.len = t.len - t.pad, !.pad = 0]

\* `not s.strip()`
IsBlank(t) == t.len - t.pad = 0

\* contents an LLM call may return (response.content)
LLMTexts ==
    { Text("llm", 120, 0, FALSE, FALSE, FALSE),    \* an ordinary long answer
      Text("llm", 49, 2, FALSE, FALSE, FALSE),     \* padded with whitespace, short
      Text("llm", 120, 0, FALSE, TRUE, FALSE),     \* mentions "no hay documentos"
      Text("llm", 2, 2, FALSE, FALSE, FALSE),      \* whitespace only
      EmptyText }                                  \* the empty string

\* the outcome of an external call (LLM, retrieval): it returns a value or raises
Ok(v) == [raised |-> FALSE, value |-> v]
Raise == [raised |-> TRUE]
Outcomes(S) == {Ok(v) : v \in S} \cup {Raise}

\* --------------------------------------------------------------- documents
Doc == [id : 1..MaxDocs, blank : BOOLEAN]

\* results of similarity_search, best first: nothing, MaxDocs documents,
\* or one document whose page_content is whitespace
SearchResults ==
    { <<>>, [i \in 1..MaxDocs |-> [id |-> i, blank |-> FALSE]],
      <<[id |-> 1, blank |-> TRUE]>> }

Take(s, n) == SubSeq(s, 1, IF Len(s) < n THEN Len(s) ELSE n)

\* "\n\n---\n\n".join(doc.page_content ...).strip() == ""
ContextIsBlank(docs) == \A i \in 1..Len(docs) : docs[i].blank

\* --------------------------------------------------------------- the state
create_initial_state ==
    [ question |-> "question",
      context |-> <<>>,
      filtered_context |-> <<>>,
      domain |-> "",
      answer |-> EmptyText,
      audit_result |-> "",
      revision_count |-> 0,
      quant_chart |-> None,
      quant_chart_type |-> None,
      quant_insights |-> NoneText,
      quant_data_quality |-> None,
      risk_level |-> None,
      compliance_status |-> None,
      risk_issues |-> <<>>,
      gate_passed |-> None,
      no_documents |-> None ]

\* the engine merges a node's partial update by key, last writer wins
Merge(st, upd) ==
    [k \in DOMAIN st |-> IF k \in DOMAIN upd THEN upd[k] ELSE st[k]]

get_docs(st) ==
    IF st.filtered_context # <<>> THEN st.filtered_context ELSE st.context

\* ------------------------------------------------------------ retrieve
retrieve_node(st, search) ==
    IF search.raised
    THEN [context |-> <<>>, revision_count |-> 0]
    ELSE IF search.value = <<>>
    THEN [ context |-> <<>>,
           filtered_context |-> <<>>,
           revision_count |-> 0,
           domain |-> "none",
           answer |-> NO_DOCUMENTS_MESSAGE,
           audit_result |-> "pass",
           no_documents |-> PyTrue ]
    ELSE [context |-> search.value, revision_count |-> 0]

\* variant of the selector that ignores no_documents
route_to_grading(st) == "grade_documents"

route_after_retrieve(st) ==
    IF st.no_documents = PyTrue THEN "end" ELSE "grade_documents"

\* ------------------------------------------------------- grade_documents
\* what the grader's reply contains: "relevant" / "not_relevant"
GradeReplies ==
    { [rel |-> TRUE, notrel |-> FALSE],     \* "relevant"
      [rel |-> TRUE, notrel |-> TRUE],      \* "not_relevant"
      [rel |-> FALSE, notrel |-> FALSE] }   \* anything else

GradeOutcomes(ctx) == [1..Len(ctx) -> Outcomes(GradeReplies)]

is_relevant(grade) == grade.rel /\ ~grade.notrel

RECURSIVE relevant_docs(_, _, _)
relevant_docs(ctx, grades, i) ==
    IF i > Len(ctx) THEN <<>>
    ELSE (IF is_relevant(grades[i].value) THEN <<ctx[i]>> ELSE <<>>)
         \o relevant_docs(ctx, grades, i + 1)

GradeRaised(grades) == \E i \in DOMAIN grades : grades[i].raised

\* the loop stops at the first call that raises
GradeLLMCalls(grades) ==
    IF GradeRaised(grades)
    THEN CHOOSE i \in DOMAIN grades :
            grades[i].raised /\ \A j \in 1..(i - 1) : ~grades[j].raised
    ELSE Len(grades)

grade_documents_node(st, grades) ==
    IF GradeRaised(grades)
    THEN [filtered_context |-> Take(st.context, FALLBACK_DOCS)]
    ELSE LET relevant == relevant_docs(st.context, grades, 1)
         IN  [filtered_context |->
                 IF relevant = <<>> THEN Take(st.context, FALLBACK_DOCS) ELSE relevant]

\* ------------------------------------------------------------------ router
DOMAINS ==
    {"legal", "technical", "financial", "timeline", "requirements", "general", "quantitative"}

\* a short reply: its lower-cased core word, and whether the raw reply carries
\* upper-case letters or surrounding whitespace
Word(w, upper, pad) == [word |-> w, upper |-> upper, pad |-> pad]

\* response.content.strip().lower()
StripLower(r) == Word(r.word, FALSE, FALSE)

RouterReplies ==
    { Word("legal", FALSE, FALSE), Word("legal", TRUE, TRUE),
      Word("general", FALSE, FALSE), Word("quantitative", FALSE, FALSE),
      Word("banana", FALSE, FALSE), Word("none", FALSE, FALSE) }

\* variant of the classifier that returns the normalised reply unvalidated
route_question_unvalidated(reply) ==
    IF reply.raised THEN "general" ELSE StripLower(reply.value).word

route_question(reply) ==
    IF reply.raised THEN "general"
    ELSE LET domain == StripLower(reply.value)
         IN  IF domain \in {Word(d, FALSE, FALSE) : d \in DOMAINS}
             THEN domain.word ELSE "general"

router_node(st, reply) == [domain |-> route_question(reply)]

\* variant of the selector that sends every domain to the specialist
route_to_specialist(st) == "specialist"

route_after_router(st) ==
    IF st.domain = "quantitative" THEN "quant" ELSE "specialist"

\* -------------------------------------------------------------- specialist
\* [text, llm]: the answer and the number of LLM calls made
\* variant of generate without the blank-context guard
generate_without_blank_check(docs, reply) ==
    IF reply.raised THEN [text |-> SPECIALIST_ERROR_MESSAGE, llm |-> 1]
    ELSE [text |-> reply.value, llm |-> 1]

specialist_generate(docs, reply) ==
    IF ContextIsBlank(docs) THEN [text |-> NO_INFO_MESSAGE, llm |-> 0]
    ELSE IF reply.raised THEN [text |-> SPECIALIST_ERROR_MESSAGE, llm |-> 1]
    ELSE [text |-> reply.value, llm |-> 1]

specialist_node(st, reply) ==
    [answer |-> specialist_generate(get_docs(st), reply).text]

\* ------------------------------------------------------------------ refine
\* variant of refine_node without its try/except: the LLM's exception escapes
unguarded_refine_node(st, reply) ==
    IF reply.raised THEN [exception |-> TRUE]
    ELSE [answer |-> reply.value, revision_count |-> st.revision_count + 1]

\* variant of refine_node that also clears the verdict of the audit
refine_node_clearing_verdict(st, reply) ==
    IF reply.raised THEN [revision_count |-> st.revision_count + 1, audit_result |-> ""]
    ELSE [answer |-> reply.value, revision_count |-> st.revision_count + 1,
          audit_result |-> ""]

\* variant of refine_node that counts only the revisions that succeeded
refine_node_counting_successes(st, reply) ==
    IF reply.raised THEN [revision_count |-> st.revision_count]
    ELSE [answer |-> reply.value, revision_count |-> st.revision_count + 1]

refine_node(st, reply) ==
    LET current_revision == st.revision_count + 1
    IN  IF reply.raised
        THEN [revision_count |-> current_revision]
        ELSE [answer |-> reply.value, revision_count |-> current_revision]

\* variant of the selector that allows a single revision
should_continue_once(st) ==
    IF st.audit_result = "fail" /\ st.revision_count < 1 THEN "refine" ELSE "end"

should_continue_after_audit(st) ==
    IF st.audit_result = "fail" /\ st.revision_count < LEGACY_MAX_REVISIONS
    THEN "refine" ELSE "end"

\* ------------------------------------------------------------- risk scorer
\* Severity and RiskCategory members, named by their values.  Probabilities
\* are in thousandths, penalties and raw scores in thousandths of a point,
\* the reported total_score (rounded to two decimals) in hundredths.
SeverityNames == {"low", "medium", "high", "critical"}
RiskCategoryNames == {"financial", "legal", "technical", "reputational"}

SEVERITY_WEIGHTS(severity) ==
    CASE severity = "low" -> 2
      [] severity = "medium" -> 5
      [] severity = "high" -> 15
      [] severity = "critical" -> 100

THRESHOLD_GO == 70
THRESHOLD_REVIEW == 40
BASE_SCORE == 100

\* round(x, 2): thousandths to hundredths, ties to even
Round2(m) ==
    LET q == m \div 10
        r == m % 10
    IN  IF r < 5 THEN q
        ELSE IF r > 5 THEN q + 1
        ELSE IF q % 2 = 0 THEN q ELSE q + 1

\* the loop of lines 175-180: total_penalty after the first n risks
total_penalty(risks) ==
    LET after[n \in 0..Len(risks)] ==
            IF n = 0 THEN 0
            ELSE after[n - 1] + SEVERITY_WEIGHTS(risks[n].severity) * risks[n].probability
    IN  after[Len(risks)]

determine_recommendation(score) ==
    IF score >= THRESHOLD_GO * 1000 THEN "GO"
    ELSE IF score >= THRESHOLD_REVIEW * 1000 THEN "REVIEW"
    ELSE "NO_GO"

\* lines 183-218 once the penalties are summed: the score, the
\* recommendation taken on the unrounded score, the reported rounded score
weighted_result(penalty) ==
    LET total_score == IF BASE_SCORE * 1000 - penalty < 0 THEN 0
                       ELSE BASE_SCORE * 1000 - penalty
    IN  [ total_score |-> Round2(total_score),
          recommendation |-> determine_recommendation(total_score),
          kill_switch_activated |-> FALSE ]

\* RiskScoreCalculator(allow_empty_risks=True).calculate(risks)
calculate(risks) ==
    IF risks = <<>>
    THEN [total_score |-> 10000, recommendation |-> "GO", kill_switch_activated |-> FALSE]
    ELSE IF \E i \in DOMAIN risks : risks[i].severity = "critical"
    THEN [total_score |-> 0, recommendation |-> "NO_GO", kill_switch_activated |-> TRUE]
    ELSE weighted_result(total_penalty(risks))

\* ------------------------------------------------------------- AgentLogger
AgentLoggerMethods ==
    { "pipeline_start", "pipeline_end", "node_enter", "node_exit",
      "routing_decision", "specialist_selected", "error", "debug" }

\* logger.<method>(...) with nargs positional arguments raises: the class has
\* no such method (AttributeError), or error() is not given (node, error)
LoggerCallRaises(method, nargs) ==
    \/ method \notin AgentLoggerMethods
    \/ (method = "error" /\ nargs # 2)

\* -------------------------------------------------------------- risk_audit
MISSING == "MISSING"

\* module-level prompt templates risk_sentinel.py defines
DefinedPrompts == {"UNIFIED_RISK_PROMPT_ENHANCED"}

RawFactor(severity, category, probability, description_len) ==
    [ severity |-> severity, category |-> category,
      probability |-> probability, description_len |-> description_len ]

\* RiskFactorInput(...) accepts the factor (pydantic: description min_length=5,
\* probability in [0, 1])
factor_ok(rf) == rf.probability \in 0..1000 /\ rf.description_len >= 5

\* getattr(SkillSeverity, sev_str.upper(), MEDIUM), getattr(RiskCategory, ..., FINANCIAL)
to_risk_input(rf) ==
    [ severity |->
          IF ~rf.severity.pad /\ rf.severity.word \in SeverityNames
          THEN rf.severity.word ELSE "medium",
      category |->
          IF ~rf.category.pad /\ rf.category.word \in RiskCategoryNames
          THEN rf.category.word ELSE "financial",
      probability |-> rf.probability ]

RECURSIVE risk_inputs_of(_, _)
risk_inputs_of(raw, i) ==
    IF i > Len(raw) THEN <<>>
    ELSE (IF factor_ok(raw[i]) THEN <<to_risk_input(raw[i])>> ELSE <<>>)
         \o risk_inputs_of(raw, i + 1)

\* [i for i in issues if i and not i.startswith("Lista SOLO")]
IssueKept(i) == i # "" /\ i # "Lista SOLO ..."
filter_issues(issues) == SelectSeq(issues, IssueKept)

AuditValues(risk_level, compliance, issues, issues_list, gate_passed) ==
    [ risk_level |-> risk_level, compliance |-> compliance, issues |-> issues,
      issues_list |-> issues_list, gate_passed |-> gate_passed ]

NotInvoked ==
    [total_score |-> -1, recommendation |-> "not_invoked", kill_switch_activated |-> FALSE]

\* lines 382-401: the scorer's recommendation replaces the LLM's verdict
map_recommendation(vals, assessment) ==
    LET mapped ==
            IF assessment.recommendation = "GO"
            THEN [vals EXCEPT !.compliance = "approved", !.risk_level = "low",
                              !.gate_passed = PyTrue]
            ELSE IF assessment.recommendation = "REVIEW"
            THEN [vals EXCEPT !.compliance = "pending", !.risk_level = "medium",
                              !.gate_passed = PyTrue]
            ELSE [vals EXCEPT !.compliance = "rejected", !.risk_level = "critical",
                              !.gate_passed = PyFalse]
    IN  IF assessment.total_score < THRESHOLD_REVIEW * 100
        THEN [mapped EXCEPT !.risk_level = "critical"]
        ELSE IF assessment.total_score < THRESHOLD_GO * 100
        THEN [mapped EXCEPT !.risk_level = "high"]
        ELSE mapped

\* lines 403-406: issues.append(...) of the score summary and the kill switch
append_summary(vals, assessment) ==
    [vals EXCEPT !.issues =
        vals.issues \o <<"[RiskScore] Score">>
        \o (IF assessment.kill_switch_activated
            THEN <<"[RiskScore] KILL SWITCH ACTIVATED">> ELSE <<>>)]

\* lines 377-406, with the assessment computed
use_assessment(vals, assessment) ==
    IF LoggerCallRaises("info", 1)
    THEN [raised |-> TRUE, vals |-> vals, assessment |-> assessment]
    ELSE IF ~vals.issues_list
    THEN [raised |-> TRUE, vals |-> map_recommendation(vals, assessment),
          assessment |-> assessment]
    ELSE [raised |-> FALSE,
          vals |-> append_summary(map_recommendation(vals, assessment), assessment),
          assessment |-> assessment]

\* lines 353-375 on the factors the LLM listed: [raised, risk_inputs]
collect_risk_inputs(raw) ==
    IF (\E i \in DOMAIN raw : ~factor_ok(raw[i])) /\ LoggerCallRaises("warning", 1)
    THEN [raised |-> TRUE, risk_inputs |-> <<>>]
    ELSE [raised |-> FALSE, risk_inputs |-> risk_inputs_of(raw, 1)]

\* lines 348-409: [raised, vals, assessment]; `raised` means an exception
\* reached the handler of line 408, `vals` are the locals at that point
skill_block(result, vals, available) ==
    IF ~(available /\ result.has_risk_factors)
    THEN [raised |-> FALSE, vals |-> vals, assessment |-> NotInvoked]
    ELSE LET collected == collect_risk_inputs(result.risk_factors)
         IN  IF collected.raised
             THEN [raised |-> TRUE, vals |-> vals, assessment |-> NotInvoked]
             ELSE IF collected.risk_inputs = <<>>
             THEN [raised |-> FALSE, vals |-> vals, assessment |-> NotInvoked]
             ELSE use_assessment(vals, calculate(collected.risk_inputs))

AuditReturn(risk_level, compliance, issues, gate_passed, llm, assessment) ==
    [ risk_level |-> risk_level, compliance |-> compliance, issues |-> issues,
      gate_passed |-> gate_passed, llm |-> llm, assessment |-> assessment ]

\* variant of the handler of line 428 that fails the audit
audit_except_rejects(llm, assessment) ==
    AuditReturn("medium", "rejected", <<"Error en auditoria">>, PyFalse, llm, assessment)

\* the handler of line 428
audit_except(llm, assessment) ==
    AuditReturn("medium", "approved", <<"Error en auditoria">>, PyTrue, llm, assessment)

\* lines 342-345: the values read from the parsed reply, with their defaults
reply_values(result) ==
    AuditValues(
        IF result.risk_level = MISSING THEN "medium" ELSE result.risk_level,
        IF result.compliance_status = MISSING THEN "approved" ELSE result.compliance_status,
        result.issues, result.issues_list,
        IF result.gate_passed = MISSING THEN PyTrue ELSE result.gate_passed)

\* lines 408-426: the handler of the skill block, then validation and return
finish_audit(block) ==
    IF block.raised /\ LoggerCallRaises("error", 1)
    THEN audit_except(1, block.assessment)
    ELSE IF ~block.vals.issues_list
    THEN audit_except(1, block.assessment)
    ELSE AuditReturn(
            IF block.vals.risk_level \in {"low", "medium", "high", "critical"}
            THEN block.vals.risk_level ELSE "medium",
            IF block.vals.compliance \in {"approved", "pending", "rejected"}
            THEN block.vals.compliance ELSE "approved",
            filter_issues(block.vals.issues), block.vals.gate_passed, 1, block.assessment)

\* variant of risk_audit whose first short-circuit tests the length alone
audit_by_length_only(answer, reply, available) ==
    IF answer.len < AUTO_APPROVE_LEN
    THEN AuditReturn("low", "approved", <<>>, PyTrue, 0, NotInvoked)
    ELSE IF reply.raised
    THEN audit_except(1, NotInvoked)
    ELSE IF ~reply.value.parsed
    THEN AuditReturn("medium", "approved", <<>>, PyTrue, 1, NotInvoked)
    ELSE finish_audit(skill_block(reply.value, reply_values(reply.value), available))

risk_audit(answer, reply, available) ==
    IF answer.len < AUTO_APPROVE_LEN \/ answer.err
    THEN AuditReturn("low", "approved", <<>>, PyTrue, 0, NotInvoked)
    ELSE IF answer.nodocs
    THEN AuditReturn("low", "approved", <<>>, PyTrue, 0, NotInvoked)
    ELSE IF (IF available THEN "UNIFIED_RISK_PROMPT_ENHANCED" ELSE "UNIFIED_RISK_PROMPT")
            \notin DefinedPrompts
    THEN audit_except(0, NotInvoked)
    ELSE IF reply.raised
    THEN audit_except(1, NotInvoked)
    ELSE IF ~reply.value.parsed
    THEN AuditReturn("medium", "approved", <<>>, PyTrue, 1, NotInvoked)
    ELSE finish_audit(skill_block(reply.value, reply_values(reply.value), available))

risk_sentinel_node(st, reply, available) ==
    LET r == risk_audit(st.answer, reply, available)
    IN  [ risk_level |-> r.risk_level,
          compliance_status |-> r.compliance,
          risk_issues |-> r.issues,
          gate_passed |-> r.gate_passed,
          audit_result |-> IF r.compliance # "rejected" THEN "pass" ELSE "fail" ]

\* ------------------------------------------------------------------- quant
Data(found, type, ncats, nvalues, sized, numeric, quality) ==
    [ data_found |-> found, data_type |-> type, ncats |-> ncats, nvalues |-> nvalues,
      sized |-> sized, numeric |-> numeric, data_quality |-> quality ]

NoData == Data(FALSE, "none", 0, 0, TRUE, TRUE, "incomplete")

\* JSON objects the extraction call may return; `sized` is false when
\* "categories" is not a list, `numeric` when a value does not convert to float
ExtractData ==
    { Data(TRUE, "single_value", 1, 1, TRUE, TRUE, "sanitized"),
      Data(TRUE, "distribution", 2, 2, FALSE, TRUE, "clean") }

ExtractReplies == {[parsed |-> TRUE, data |-> d] : d \in ExtractData}
                  \cup {[parsed |-> FALSE, data |-> NoData]}

StrategyReplies ==
    { Word("pie", TRUE, TRUE), Word("banana", FALSE, FALSE) }

extract_numerical_data(docs, ex) ==
    IF ContextIsBlank(docs) THEN [data |-> NoData, llm |-> 0]
    ELSE IF ex.raised \/ ~ex.value.parsed THEN [data |-> NoData, llm |-> 1]
    ELSE [data |-> ex.value.data, llm |-> 1]

select_chart_strategy(data, strat) ==
    IF ~data.data_found \/ data.nvalues = 0 THEN [chart_type |-> "none", llm |-> 0]
    ELSE IF strat.raised THEN [chart_type |-> "none", llm |-> 1]
    ELSE LET chart_type == StripLower(strat.value)
         IN  [ chart_type |->
                   IF chart_type \in {Word(t, FALSE, FALSE) :
                                         t \in {"bar", "line", "pie", "table", "none"}}
                   THEN chart_type.word
                   ELSE IF data.data_type = "comparison" THEN "bar"
                   ELSE IF data.data_type = "timeline" THEN "line"
                   ELSE IF data.data_type = "distribution" THEN "pie"
                   ELSE "bar",
               llm |-> 1 ]

\* [raised, chart]: len(categories) raises when categories is not a list
generate_chart(data, chart_type, render) ==
    IF chart_type \in {"none", "table"} THEN [raised |-> FALSE, chart |-> None]
    ELSE IF ~data.sized THEN [raised |-> TRUE, chart |-> None]
    ELSE IF data.ncats = 0 \/ data.nvalues = 0 \/ data.ncats # data.nvalues
    THEN [raised |-> FALSE, chart |-> None]
    ELSE IF ~data.numeric THEN [raised |-> FALSE, chart |-> None]
    ELSE [raised |-> FALSE, chart |-> IF render THEN "png" ELSE None]

generate_insight(chart_type, data, ins) ==
    IF ins.raised
    THEN IF data.data_found /\ data.nvalues > 0
         THEN (IF data.nvalues = 1 THEN QUANT_ONE_VALUE_MESSAGE ELSE QUANT_VALUES_MESSAGE)
         ELSE QUANT_NO_DATA_MESSAGE
    ELSE Strip(ins.value)

quant_analyze(docs, ex, strat, render, ins) ==
    LET e == extract_numerical_data(docs, ex)
        c == select_chart_strategy(e.data, strat)
        g == generate_chart(e.data, c.chart_type, render)
    IN  IF g.raised
        THEN [ chart |-> None, chart_type |-> "none", insights |-> QUANT_ERROR_MESSAGE,
               data_quality |-> "incomplete", llm |-> e.llm + c.llm ]
        ELSE [ chart |-> g.chart, chart_type |-> c.chart_type,
               insights |-> generate_insight(c.chart_type, e.data, ins),
               data_quality |-> e.data.data_quality, llm |-> e.llm + c.llm + 1 ]

EmptyUpdate == [k \in {} |-> None]

quant_node(st, ex, strat, render, ins) ==
    IF st.domain # "quantitative" THEN EmptyUpdate
    ELSE LET q == quant_analyze(get_docs(st), ex, strat, render, ins)
         IN  [ quant_chart |-> q.chart,
               quant_chart_type |-> q.chart_type,
               quant_insights |-> q.insights,
               quant_data_quality |-> q.data_quality,
               answer |-> q.insights ]

\* ---------------------------------------------------- audit replies (input)
AuditJson(risk_level, compliance_status, gate_passed, issues, issues_list, has_rf, rf) ==
    [ parsed |-> TRUE, risk_level |-> risk_level, compliance_status |-> compliance_status,
      gate_passed |-> gate_passed, issues |-> issues, issues_list |-> issues_list,
      has_risk_factors |-> has_rf, risk_factors |-> rf ]

Unparseable == [parsed |-> FALSE]

Factor(severity, probability) ==
    RawFactor(Word(severity, FALSE, FALSE), Word("legal", FALSE, FALSE), probability, 20)

HighFactors(k) == [i \in 1..k |-> Factor("high", 1000)]

FactorLists ==
    { HighFactors(MaxFactors - 1), HighFactors(MaxFactors) }
    \cup { <<Factor("critical", 1000)>>,
           <<Factor("low", 500)>>,
           <<Factor("low", 2)>> \o HighFactors(MaxFactors - 1),
           <<RawFactor(Word("high", FALSE, FALSE), Word("legal", FALSE, FALSE), 1500, 20)>> }

AuditReplies ==
    { Unparseable,
      AuditJson("low", "approved", PyTrue, <<"issue">>, TRUE, FALSE, <<>>),
      AuditJson("high", "rejected", PyFalse, <<"issue", "", "Lista SOLO ...">>, TRUE, FALSE, <<>>),
      AuditJson("critical", "rejected", PyTrue, <<>>, FALSE, FALSE, <<>>),
      AuditJson(MISSING, "pending", MISSING, <<>>, TRUE, FALSE, <<>>),
      AuditJson("banana", "banana", PyFalse, <<>>, TRUE, FALSE, <<>>) }
    \cup { AuditJson(MISSING, "approved", PyTrue, <<"issue">>, TRUE, TRUE, rf) :
             rf \in FactorLists }
    \cup { AuditJson(MISSING, "rejected", PyFalse, <<"issue">>, TRUE, TRUE, rf) :
             rf \in FactorLists }

\* --------------------------------------------------------------- the graph
Entry(node, llm, outcome, rec, upd) ==
    [node |-> node, llm |-> llm, outcome |-> outcome, rec |-> rec, keys |-> DOMAIN upd]

Config == <<max_audit_revisions, RISK_CALCULATOR_AVAILABLE>>

\* what a pipeline run does not touch
Elsewhere == <<call, Api>>

NoCall == [phase |-> "idle", op |-> "none"]

\* the HTTP layer before any request
NoRequests ==
    /\ response_cache = <<>>
    /\ now = 0
    /\ requests = {}
    /\ runs = 0
    /\ last = [ kind |-> "startup", question |-> [word |-> "", upper |-> FALSE, pad |-> FALSE],
                response |-> [answer_of_run |-> 0], hit |-> FALSE, stored_at |-> -1 ]
    /\ cache_ttl_seconds = 300
    /\ cache_max_size = 100

\* the engine runs a node, merges its update and moves to `next`, the node
\* the outgoing edge selects on the merged state
Execute(upd, entry, next) ==
    IF "exception" \in DOMAIN upd
    THEN \* the node raised: ainvoke propagates the exception, the run is over
         /\ pc' = "RAISED"
         /\ trace' = Append(trace, entry)
         /\ UNCHANGED <<state, Config, Elsewhere>>
    ELSE /\ state' = Merge(state, upd)
         /\ trace' = Append(trace, entry)
         /\ pc' = next
         /\ UNCHANGED <<Config, Elsewhere>>

AfterRetrieve(st) == IF route_after_retrieve(st) = "end" THEN "END" ELSE "grade_documents"
AfterGrade(st) == "router"
AfterRouter(st) == route_after_router(st)
\* variant of the edge that sends the answer back to the router
BackToRouter(st) == "router"
AfterAnswer(st) == "risk_sentinel"
AfterAudit(st) == IF should_continue_after_audit(st) = "refine" THEN "refine" ELSE "END"

Init ==
    /\ state = create_initial_state
    /\ pc = "retrieve"
    /\ trace = <<>>
    /\ max_audit_revisions \in MinAuditRevisions..MaxAuditRevisions
    /\ RISK_CALCULATOR_AVAILABLE \in BOOLEAN
    /\ call = NoCall
    /\ NoRequests

RunRetrieve ==
    /\ pc = "retrieve"
    /\ \E search \in Outcomes(SearchResults) :
          LET upd == retrieve_node(state, search)
              outcome == IF search.raised THEN "raised"
                         ELSE IF search.value = <<>> THEN "empty" ELSE "docs"
          IN  Execute(upd, Entry("retrieve", 0, outcome, "", upd), AfterRetrieve(Merge(state, upd)))

RunGradeDocuments ==
    /\ pc = "grade_documents"
    /\ \E grades \in GradeOutcomes(state.context) :
          LET upd == grade_documents_node(state, grades)
              outcome == IF GradeRaised(grades) THEN "raised" ELSE "ok"
          IN  Execute(upd,
                      Entry("grade_documents", GradeLLMCalls(grades), outcome, "", upd),
                      AfterGrade(Merge(state, upd)))

RunRouter ==
    /\ pc = "router"
    /\ \E reply \in Outcomes(RouterReplies) :
          LET upd == router_node(state, reply)
              outcome == IF reply.raised THEN "raised" ELSE "ok"
          IN  Execute(upd, Entry("router", 1, outcome, "", upd), AfterRouter(Merge(state, upd)))

RunSpecialist ==
    /\ pc = "specialist"
    /\ \E reply \in Outcomes(LLMTexts) :
          LET upd == specialist_node(state, reply)
              g == specialist_generate(get_docs(state), reply)
              outcome == IF g.llm = 0 THEN "no_call"
                         ELSE IF reply.raised THEN "raised" ELSE "ok"
          IN  Execute(upd, Entry("specialist", g.llm, outcome, "", upd),
                      AfterAnswer(Merge(state, upd)))

RunQuant ==
    /\ pc = "quant"
    /\ \E ex \in Outcomes(ExtractReplies), strat \in Outcomes(StrategyReplies),
          render \in BOOLEAN, ins \in Outcomes(LLMTexts) :
          LET upd == quant_node(state, ex, strat, render, ins)
              q == quant_analyze(get_docs(state), ex, strat, render, ins)
          IN  Execute(upd, Entry("quant", q.llm, "ok", "", upd), AfterAnswer(Merge(state, upd)))

RunRiskSentinel ==
    /\ pc = "risk_sentinel"
    /\ \E reply \in Outcomes(AuditReplies) :
          LET upd == risk_sentinel_node(state, reply, RISK_CALCULATOR_AVAILABLE)
              r == risk_audit(state.answer, reply, RISK_CALCULATOR_AVAILABLE)
          IN  Execute(upd,
                      Entry("risk_sentinel", r.llm, r.compliance,
                            r.assessment.recommendation, upd),
                      AfterAudit(Merge(state, upd)))

RunRefine ==
    /\ pc = "refine"
    /\ \E reply \in Outcomes(LLMTexts) :
          LET upd == refine_node(state, reply)
              outcome == IF reply.raised THEN "raised" ELSE "ok"
          IN  Execute(upd, Entry("refine", 1, outcome, "", upd), AfterAnswer(Merge(state, upd)))

Next ==
    \/ RunRetrieve
    \/ RunGradeDocuments
    \/ RunRouter
    \/ RunSpecialist
    \/ RunQuant
    \/ RunRiskSentinel
    \/ RunRefine

Spec == Init /\ [][Next]_vars

\* the executor always runs the node the graph has reached
FairSpec == Spec /\ WF_vars(Next)

\* ------------------------------------------------ risk_audit called alone
\* the second is the answer test_risk_sentinel_uses_calculator passes
AuditAnswers ==
    { Text("llm", 120, 0, FALSE, FALSE, FALSE), Text("test", 31, 0, FALSE, FALSE, FALSE),
      NO_INFO_MESSAGE, SPECIALIST_ERROR_MESSAGE }

\* risk factors an audit reply may list; the last one is rejected by
\* RiskFactorInput (probability above 1)
FactorChoices ==
    { Factor("high", 1000), Factor("medium", 1000), Factor("critical", 1000),
      Factor("low", 2),
      RawFactor(Word("high", FALSE, FALSE), Word("legal", FALSE, FALSE), 1500, 20) }

AnyAuditReplies ==
    LET lists == UNION { [1..k -> FactorChoices] : k \in 1..MaxFactors }
    IN  AuditReplies
        \cup { AuditJson(MISSING, "approved", PyTrue, <<"issue">>, TRUE, TRUE, rf) :
                 rf \in lists }
        \cup { AuditJson(MISSING, "rejected", PyFalse, <<"issue">>, TRUE, TRUE, rf) :
                 rf \in lists }

AuditInit ==
    /\ state = create_initial_state
    /\ pc = "risk_audit"
    /\ trace = <<>>
    /\ max_audit_revisions \in {2}
    /\ RISK_CALCULATOR_AVAILABLE \in BOOLEAN
    /\ call \in [ phase : {"called"}, answer : AuditAnswers,
                   reply : Outcomes(AnyAuditReplies) ]
    /\ NoRequests

\* risk_sentinel_node runs on a state holding the answer; risk_audit returns
CallRiskAudit ==
    /\ call.phase = "called"
    /\ call' =
          [ phase |-> "returned",
            answer |-> call.answer,
            reply |-> call.reply,
            result |-> risk_audit(call.answer, call.reply,
                                  RISK_CALCULATOR_AVAILABLE),
            update |-> risk_sentinel_node(
                          [create_initial_state EXCEPT !.answer = call.answer],
                          call.reply, RISK_CALCULATOR_AVAILABLE) ]
    /\ UNCHANGED <<state, pc, trace, Config, Api>>

AuditSpec == AuditInit /\ [][CallRiskAudit]_vars

\* ------------------------------------- nodes/grader.py, and a grader called alone
MaxLines == 2

\* a line of the batch grader's reply, stripped and lowercased: whether it
\* holds a colon, whether int() accepts what precedes it, that integer, and
\* what follows the colon
GradeLine(colon, number, index, grade) ==
    [colon |-> colon, number |-> number, index |-> index, grade |-> grade]

GradeLines ==
    { GradeLine(TRUE, TRUE, i, g) : i \in -1..(MaxDocs + 1), g \in GradeReplies }
    \cup { GradeLine(FALSE, FALSE, 0, g) : g \in GradeReplies }
    \cup { GradeLine(TRUE, FALSE, 0, [rel |-> TRUE, notrel |-> FALSE]) }

BatchReplies == UNION { [1..n -> GradeLines] : n \in 0..MaxLines }

\* variant of the loop that keeps the truncated copy shown to the LLM
RECURSIVE truncated_relevant_docs(_, _, _)
truncated_relevant_docs(original_docs, lines, i) ==
    IF i > Len(lines) THEN <<>>
    ELSE (IF /\ lines[i].colon
             /\ lines[i].number
             /\ 0 <= lines[i].index - 1
             /\ lines[i].index - 1 < Len(original_docs)
             /\ is_relevant(lines[i].grade)
          THEN <<[ id |-> original_docs[lines[i].index].id,
                   blank |-> original_docs[lines[i].index].blank,
                   truncated |-> TRUE ]>>
          ELSE <<>>)
         \o truncated_relevant_docs(original_docs, lines, i + 1)

\* lines 68-83: relevant_docs after the lines from i on
RECURSIVE batch_relevant_docs(_, _, _)
batch_relevant_docs(original_docs, lines, i) ==
    IF i > Len(lines) THEN <<>>
    ELSE (IF /\ lines[i].colon
             /\ lines[i].number
             /\ 0 <= lines[i].index - 1
             /\ lines[i].index - 1 < Len(original_docs)
             /\ is_relevant(lines[i].grade)
          THEN <<original_docs[lines[i].index]>> ELSE <<>>)
         \o batch_relevant_docs(original_docs, lines, i + 1)

\* variant of the safety net that falls back to the last documents of context
safety_net_from_the_end(relevant, original_docs, is_data_heavy, min_docs, fallback_docs) ==
    LET n == Len(original_docs)
        bottom == SubSeq(original_docs, IF n < fallback_docs THEN 1 ELSE n - fallback_docs + 1, n)
    IN  IF Len(relevant) < min_docs /\ is_data_heavy
        THEN bottom
        ELSE IF relevant = <<>>
        THEN bottom
        ELSE relevant

\* lines 85-98 on the documents graded relevant
safety_net(relevant, original_docs, is_data_heavy, min_docs, fallback_docs) ==
    IF Len(relevant) < min_docs /\ is_data_heavy
    THEN Take(original_docs, fallback_docs)
    ELSE IF relevant = <<>>
    THEN Take(original_docs, fallback_docs)
    ELSE relevant

_grade_documents_node(st, reply, is_data_heavy, min_docs, fallback_docs) ==
    IF reply.raised
    THEN [filtered_context |-> Take(st.context, fallback_docs)]
    ELSE [filtered_context |->
            safety_net(batch_relevant_docs(st.context, reply.value, 1), st.context,
                       is_data_heavy, min_docs, fallback_docs)]

\* the retrieved documents a grader can be given: similarity_search returned them
Contexts == SearchResults \ {<<>>}

\* a call of the batch grader under some settings, or of the graph's grader
GradeCalls ==
    [ grader : {"_grade_documents_node"}, phase : {"called"}, context : Contexts,
      reply : Outcomes(BatchReplies), is_data_heavy : BOOLEAN,
      safety_net_min_docs : {1, 3}, safety_net_fallback_docs : {1, 5} ]
    \cup
    UNION { [ grader : {"grade_documents_node"}, phase : {"called"}, context : {ctx},
              reply : GradeOutcomes(ctx), is_data_heavy : BOOLEAN,
              safety_net_min_docs : {3}, safety_net_fallback_docs : {5} ] :
            ctx \in Contexts }

GradeInit ==
    /\ state = create_initial_state
    /\ pc = "grader"
    /\ trace = <<>>
    /\ max_audit_revisions \in {2}
    /\ RISK_CALCULATOR_AVAILABLE \in {TRUE}
    /\ call \in GradeCalls
    /\ NoRequests

\* the grader runs on the state retrieve left and its update is merged
CallGrader ==
    /\ call.phase = "called"
    /\ LET st == [create_initial_state EXCEPT !.context = call.context]
           upd == IF call.grader = "grade_documents_node"
                  THEN grade_documents_node(st, call.reply)
                  ELSE _grade_documents_node(st, call.reply,
                           call.is_data_heavy, call.safety_net_min_docs,
                           call.safety_net_fallback_docs)
       IN  /\ state' = Merge(st, upd)
           /\ call' = [call EXCEPT !.phase = "returned"]
    /\ UNCHANGED <<pc, trace, Config, Api>>

GradeSpec == GradeInit /\ [][CallGrader]_vars

\* ------------------------------------------------- the router called alone
\* replies a chat model can give to the router prompt: a closed-set name or
\* other text, with or without upper-case letters and surrounding whitespace
AnyRouterReplies ==
    { Word(w, upper, pad) :
        w \in DOMAINS \cup { "banana", "none", "legal.", "dominio: legal",
                             "finance", "technical financial" },
        upper \in BOOLEAN, pad \in BOOLEAN }
    \cup { Word("", FALSE, pad) : pad \in BOOLEAN }

RouteInit ==
    /\ state = create_initial_state
    /\ pc = "router"
    /\ trace = <<>>
    /\ max_audit_revisions \in {2}
    /\ RISK_CALCULATOR_AVAILABLE \in {TRUE}
    /\ call \in [phase : {"called"}, reply : Outcomes(AnyRouterReplies)]
    /\ NoRequests

\* router_node runs on a state that holds retrieved documents
CallRouter ==
    /\ call.phase = "called"
    /\ \E context \in Contexts :
         LET st == [create_initial_state EXCEPT !.context = context]
         IN  state' = Merge(st, router_node(st, call.reply))
    /\ call' = [call EXCEPT !.phase = "returned"]
    /\ UNCHANGED <<pc, trace, Config, Api>>

RouteSpec == RouteInit /\ [][CallRouter]_vars

\* ------------------------------------------- api/routes/chat.py: /chat/stream
\* final states rfp_app.ainvoke can hand back: the no-documents state, and
\* audited answers whose gate_passed is the reply's JSON value (null included)
StreamResults ==
    { Merge(create_initial_state, retrieve_node(create_initial_state, Ok(<<>>))) }
    \cup
    { [ create_initial_state EXCEPT
          !.context = context, !.domain = domain, !.answer = answer,
          !.audit_result = "pass", !.revision_count = revision_count,
          !.risk_level = "low", !.compliance_status = "approved",
          !.gate_passed = gate_passed,
          !.quant_chart_type = IF domain = "quantitative" THEN "none" ELSE None,
          !.quant_insights = IF domain = "quantitative" THEN answer ELSE NoneText,
          !.quant_data_quality = IF domain = "quantitative" THEN "incomplete" ELSE None ] :
        context \in Contexts, domain \in {"legal", "quantitative"},
        answer \in { Text("llm", 120, 0, FALSE, FALSE, FALSE),
                     Text("llm", 49, 2, FALSE, FALSE, FALSE) },
        revision_count \in 0..LEGACY_MAX_REVISIONS,
        gate_passed \in {PyTrue, PyFalse, None} }

\* [raised, response]: RiskAssessment rejects values outside its field types
\* (pydantic ValidationError); sources are not modelled
build_query_response(result) ==
    LET filtered_docs == IF result.filtered_context # <<>>
                         THEN result.filtered_context ELSE result.context
        quant_analysis ==
            IF result.quant_chart # None
               \/ (result.quant_insights # NoneText /\ result.quant_insights.len > 0)
            THEN [ chart_base64 |-> result.quant_chart,
                   chart_type |-> result.quant_chart_type,
                   insights |-> result.quant_insights,
                   data_quality |-> result.quant_data_quality ]
            ELSE [ chart_base64 |-> None, chart_type |-> None,
                   insights |-> NoneText, data_quality |-> None ]
        risk_assessment ==
            IF result.risk_level # None
            THEN [ risk_level |-> result.risk_level,
                   compliance_status |-> result.compliance_status,
                   issues |-> result.risk_issues,
                   gate_passed |-> result.gate_passed ]
            ELSE [ risk_level |-> None, compliance_status |-> None,
                   issues |-> <<>>, gate_passed |-> None ]
    IN  [ raised |->
            /\ result.risk_level # None
            /\ \/ result.risk_level \notin {"low", "medium", "high", "critical"}
               \/ result.compliance_status \notin {"approved", "pending", "rejected"}
               \/ result.gate_passed \notin {PyTrue, PyFalse},
          response |->
            [ answer |-> result.answer,
              agent_metadata |->
                [ domain |-> result.domain,
                  specialist_used |-> IF result.domain = "quantitative" THEN "quant"
                                      ELSE "specialist_" \o result.domain,
                  documents_retrieved |-> Len(result.context),
                  documents_filtered |-> Len(filtered_docs),
                  revision_count |-> result.revision_count,
                  audit_result |-> result.audit_result,
                  quant_analysis |-> quant_analysis,
                  risk_assessment |-> risk_assessment ] ] ]

\* one server-sent event
_sse_event(event_type, data) == [event |-> event_type, data |-> data]

StreamInit ==
    /\ state = create_initial_state
    /\ pc = "stream"
    /\ trace = <<>>
    /\ max_audit_revisions \in {2}
    /\ RISK_CALCULATOR_AVAILABLE \in {TRUE}
    /\ call \in [phase : {"opened"}, events : {<<>>}, ainvoke : Outcomes(StreamResults)]
    /\ NoRequests

\* line 73: the first event of the stream
StreamStatus ==
    /\ call.phase = "opened"
    /\ call' = [call EXCEPT !.phase = "invoking",
                            !.events = Append(@, _sse_event("status", [step |-> "retrieve"]))]
    /\ UNCHANGED <<state, pc, trace, Config, Api>>

\* lines 74-76: the graph returned and the response was built
StreamResult ==
    /\ call.phase = "invoking"
    /\ ~call.ainvoke.raised
    /\ ~build_query_response(call.ainvoke.value).raised
    /\ state' = call.ainvoke.value
    /\ call' = [call EXCEPT !.phase = "closed",
                            !.events = Append(@, _sse_event("result",
                                build_query_response(call.ainvoke.value).response))]
    /\ UNCHANGED <<pc, trace, Config, Api>>

\* variant of the handler that ends the stream without an event
StreamErrorSilent ==
    /\ call.phase = "invoking"
    /\ \/ call.ainvoke.raised
       \/ /\ ~call.ainvoke.raised
          /\ build_query_response(call.ainvoke.value).raised
    /\ call' = [call EXCEPT !.phase = "closed"]
    /\ UNCHANGED <<state, pc, trace, Config, Api>>

\* lines 77-79: ainvoke or build_query_response raised
StreamError ==
    /\ call.phase = "invoking"
    /\ \/ call.ainvoke.raised
       \/ /\ ~call.ainvoke.raised
          /\ build_query_response(call.ainvoke.value).raised
    /\ call' = [call EXCEPT !.phase = "closed",
                            !.events = Append(@, _sse_event("error", [detail |-> "str(e)"]))]
    /\ UNCHANGED <<state, pc, trace, Config, Api>>

StreamNext == StreamStatus \/ StreamResult \/ StreamError

\* the server iterates the generator until it is exhausted
StreamSpec == StreamInit /\ [][StreamNext]_vars /\ WF_vars(StreamNext)

\* ------------------------- agents/agent_factory.py and services/container.py
\* the specialist classes, each with its DOMAIN attribute
AgentClassDomain ==
    [ FinancialSpecialistAgent |-> "financial",
      LegalSpecialistAgent |-> "legal",
      TechnicalSpecialistAgent |-> "technical",
      TimelineSpecialistAgent |-> "timeline",
      RequirementsSpecialistAgent |-> "requirements",
      GeneralSpecialistAgent |-> "general" ]

\* the class-level registry before the first AgentFactory is built
EmptyRegistry == [d \in DOMAINS |-> None]

\* the registry _initialize_registry installs
_initialize_registry ==
    [ d \in DOMAINS |->
        IF d = "quantitative" THEN None
        ELSE CHOOSE c \in DOMAIN AgentClassDomain : AgentClassDomain[c] = d ]

\* an AgentFactory instance (built is false for "no factory")
Factory(built, llm, logger) == [built |-> built, llm |-> llm, logger |-> logger]
NoFactory == Factory(FALSE, None, None)

\* what a call returns: an agent instance, or the exception it raised
Agent(outcome, class, domain, llm, logger) ==
    [outcome |-> outcome, class |-> class, domain |-> domain, llm |-> llm, logger |-> logger]
Raised(exception) == Agent(exception, None, None, None, None)

\* variant of create that falls back to the general specialist
create_or_general(factory, _registry, domain) ==
    IF domain \notin DOMAINS THEN Raised("ValueError")
    ELSE LET agent_class == IF _registry[domain] = None THEN "GeneralSpecialistAgent"
                            ELSE _registry[domain]
         IN  Agent("agent", agent_class, AgentClassDomain[agent_class],
                   factory.llm, factory.logger)

\* AgentFactory.create
create(factory, _registry, domain) ==
    IF domain \notin DOMAINS THEN Raised("ValueError")
    ELSE LET agent_class == _registry[domain]
         IN  IF agent_class = None THEN Raised("NotImplementedError")
             ELSE Agent("agent", agent_class, AgentClassDomain[agent_class],
                        factory.llm, factory.logger)

\* the container, the class attributes of AgentFactory, a factory obtained
\* from the container earlier, and the last call with what it returned
Container(_llm, _logger, _agent_factory, _registry, _initialized, held, op, arg, returned) ==
    [ phase |-> "container", _llm |-> _llm, _logger |-> _logger,
      _agent_factory |-> _agent_factory, _registry |-> _registry,
      _initialized |-> _initialized, held |-> held,
      last |-> [op |-> op, arg |-> arg, returned |-> returned] ]

ContainerInit ==
    /\ state = create_initial_state
    /\ pc = "container"
    /\ trace = <<>>
    /\ max_audit_revisions \in {2}
    /\ RISK_CALCULATOR_AVAILABLE \in {TRUE}
    /\ call = Container(None, None, NoFactory, EmptyRegistry, FALSE, NoFactory,
                        "DependencyContainer", "", Raised("none"))
    /\ NoRequests

Untouched == <<state, pc, trace, Config, Api>>

\* container.llm
llm_property ==
    /\ call' = [call EXCEPT
                  !._llm = IF @ = None THEN "get_llm()" ELSE @,
                  !.last = [op |-> "llm", arg |-> "", returned |-> Raised("none")]]
    /\ UNCHANGED Untouched

\* variant of override_llm that keeps the cached factory
override_llm_keeping_factory(mock_llm) ==
    /\ call' = [call EXCEPT
                  !._llm = mock_llm,
                  !.last = [op |-> "override_llm", arg |-> mock_llm, returned |-> Raised("none")]]
    /\ UNCHANGED Untouched

override_llm(mock_llm) ==
    /\ call' = [call EXCEPT
                  !._llm = mock_llm,
                  !._agent_factory = NoFactory,
                  !.last = [op |-> "override_llm", arg |-> mock_llm, returned |-> Raised("none")]]
    /\ UNCHANGED Untouched

reset ==
    /\ call' = [call EXCEPT
                  !._llm = None, !._logger = None, !._agent_factory = NoFactory,
                  !.last = [op |-> "reset", arg |-> "", returned |-> Raised("none")]]
    /\ UNCHANGED Untouched

\* the container after its agent_factory property was read: the llm and
\* logger properties are read and AgentFactory.__init__ runs if no factory is cached
agent_factory(c) ==
    IF c._agent_factory.built THEN c
    ELSE LET llm == IF c._llm = None THEN "get_llm()" ELSE c._llm
         IN  [ c EXCEPT
                 !._llm = llm,
                 !._logger = "AgentLogger",
                 !._agent_factory = Factory(TRUE, llm, "AgentLogger"),
                 !._registry = IF c._initialized THEN @ ELSE _initialize_registry,
                 !._initialized = TRUE ]

\* factory = container.agent_factory, kept by the caller
GetFactory ==
    /\ call' = [agent_factory(call) EXCEPT
                  !.held = agent_factory(call)._agent_factory,
                  !.last = [op |-> "agent_factory", arg |-> "", returned |-> Raised("none")]]
    /\ UNCHANGED Untouched

CreateDomains == DOMAINS \cup {"", "unknown_domain"}

\* factory.create(domain) on the factory the caller keeps
FactoryCreate(domain) ==
    /\ call.held.built
    /\ call' = [call EXCEPT
                  !.last = [op |-> "create", arg |-> domain,
                            returned |-> create(call.held, call._registry, domain)]]
    /\ UNCHANGED Untouched

\* container.agent_factory.create(domain)
ContainerCreate(domain) ==
    /\ call' = [agent_factory(call) EXCEPT
                  !.last = [op |-> "agent_factory.create", arg |-> domain,
                            returned |-> create(agent_factory(call)._agent_factory,
                                                agent_factory(call)._registry, domain)]]
    /\ UNCHANGED Untouched

\* AgentFactory.register
register(domain, agent_class) ==
    /\ call' = [call EXCEPT
                  !._registry = IF domain \in DOMAINS
                                THEN [@ EXCEPT ![domain] = agent_class] ELSE @,
                  !.last = [op |-> "register", arg |-> domain,
                            returned |-> Raised(IF domain \in DOMAINS THEN "none"
                                                ELSE "ValueError")]]
    /\ UNCHANGED Untouched

ContainerNext ==
    \/ llm_property
    \/ \E mock_llm \in {"mock_llm", "mock_llm_2"} : override_llm(mock_llm)
    \/ reset
    \/ GetFactory
    \/ \E domain \in CreateDomains : FactoryCreate(domain)
    \/ \E domain \in CreateDomains : ContainerCreate(domain)
    \/ \E domain \in {"legal", "quantitative", "unknown_domain"},
          agent_class \in {"GeneralSpecialistAgent", "FinancialSpecialistAgent"} :
             register(domain, agent_class)

ContainerSpec == ContainerInit /\ [][ContainerNext]_vars

\* ------------------------------- agents/specialists: generate called alone
\* the fixed "No encontré información ... relevante" reply of each specialist
NoInformationMessage(domain) ==
    Text("No encontré información: " \o domain,
         [ financial |-> 72, general |-> 61, legal |-> 67, requirements |-> 90,
           technical |-> 69, timeline |-> 84 ][domain],
         0, FALSE, FALSE, FALSE)

Generated(outcome, content, llm) == [outcome |-> outcome, content |-> content, llm |-> llm]

\* variant of generate without the test on the formatted context
generate_unconditionally(domain, context, reply) ==
    IF reply.raised THEN Generated("AgentProcessingError", NoneText, 1)
    ELSE Generated("returned", reply.value, 1)

\* <Domain>SpecialistAgent.generate: what it returns or raises, and the
\* number of self._llm.ainvoke calls
generate(domain, context, reply) ==
    IF ContextIsBlank(context)
    THEN Generated("returned", NoInformationMessage(domain), 0)
    ELSE IF reply.raised THEN Generated("AgentProcessingError", NoneText, 1)
    ELSE Generated("returned", reply.value, 1)

\* contexts a specialist can be given: also the empty list, and a
\* whitespace document next to one with text
AgentContexts ==
    SearchResults \cup { <<[id |-> 1, blank |-> TRUE], [id |-> MaxDocs, blank |-> FALSE]>> }

GenerateInit ==
    /\ state = create_initial_state
    /\ pc = "generate"
    /\ trace = <<>>
    /\ max_audit_revisions \in {2}
    /\ RISK_CALCULATOR_AVAILABLE \in {TRUE}
    /\ call \in [ phase : {"called"}, agent_class : DOMAIN AgentClassDomain,
                   context : AgentContexts, reply : Outcomes(LLMTexts) ]
    /\ NoRequests

CallGenerate ==
    /\ call.phase = "called"
    /\ call' = [ phase |-> "returned", agent_class |-> call.agent_class,
                 context |-> call.context, reply |-> call.reply,
                 result |-> generate(AgentClassDomain[call.agent_class],
                                     call.context, call.reply) ]
    /\ UNCHANGED Untouched

GenerateSpec == GenerateInit /\ [][CallGenerate]_vars

\* ------------------------------------------- services/vector_store.py: the index
MaxPoints == 4      \* points the collection may hold

SEARCH_K == 10      \* similarity_search(query, k=10)

\* PDF files, with the number of chunks the splitter cuts each into
PdfFiles == { [name |-> "a.pdf", chunks |-> 1], [name |-> "b.pdf", chunks |-> 2] }

\* lines 88-94: the chunks of a file, each tagged with the source name
chunks_of(file_path, source_name) ==
    [ i \in 1..file_path.chunks |->
        [source |-> source_name, page_content |-> <<file_path.name, i>>] ]

\* QdrantVectorStore.add_documents without ids: every document becomes a
\* new point under a fresh uuid, whatever the collection already holds
add_documents(points, chunks) == points \o chunks

\* get_indexed_documents: the number of points of each source
get_indexed_documents(points) ==
    [ source \in { points[i].source : i \in DOMAIN points } |->
        Cardinality({ i \in DOMAIN points : points[i].source = source }) ]

\* similarity_search: the k best points (equal chunks score equally; the
\* order of the others is not modelled)
similarity_search(points) == Take(points, SEARCH_K)

Index(points, op, source_name, returned, again, before) ==
    [ phase |-> "index", points |-> points,
      last |-> [ op |-> op, source_name |-> source_name, returned |-> returned,
                 again |-> again, before |-> before ] ]

IndexInit ==
    /\ state = create_initial_state
    /\ pc = "index"
    /\ trace = <<>>
    /\ max_audit_revisions \in {2}
    /\ RISK_CALCULATOR_AVAILABLE \in {TRUE}
    /\ call = Index(<<>>, "RAGService", "", 0, FALSE, <<>>)
    /\ NoRequests

\* RAGService.ingest_document; it returns len(chunks), or raises (-1) when the
\* PDF cannot be loaded.  `again` records that the index already held these
\* chunks under this source name, `before` the index it was given
RAGService_ingest_document(file_path, original_filename, loaded) ==
    LET source_name == IF original_filename = None THEN file_path.name
                       ELSE original_filename
        chunks == chunks_of(file_path, source_name)
        again == \A i \in DOMAIN chunks : \E j \in DOMAIN call.points :
                    call.points[j] = chunks[i]
    IN  /\ Len(call.points) + Len(chunks) <= MaxPoints
        /\ call' = IF loaded
                   THEN Index(add_documents(call.points, chunks), "ingest_document",
                              source_name, Len(chunks), again, call.points)
                   ELSE Index(call.points, "ingest_document", source_name, -1,
                              again, call.points)
        /\ UNCHANGED Untouched

\* RAGService.clear_index; it returns False when recreating the collection raises
RAGService_clear_index(recreated) ==
    /\ call' = IF recreated
               THEN Index(<<>>, "clear_index", "", 1, FALSE, call.points)
               ELSE Index(call.points, "clear_index", "", 0, FALSE, call.points)
    /\ UNCHANGED Untouched

IndexNext ==
    \/ \E file_path \in PdfFiles, original_filename \in {None, "rfp.pdf"},
          loaded \in BOOLEAN :
             RAGService_ingest_document(file_path, original_filename, loaded)
    \/ \E recreated \in BOOLEAN : RAGService_clear_index(recreated)

IndexSpec == IndexInit /\ [][IndexNext]_vars

\* ------------------- services/vector_store.py: first calls to the RAGService
\* calls made to the one RAGService before it is initialized
MaxCalls == 2

\* a call to a method decorated with _ensure_initialized: where it is, the
\* client it created, whether its get_collections returned the collection's
\* name, the client its create_collection was bound to, and the client its
\* method worked on
RagCall(method, at, own, names, target, used) ==
    [ method |-> method, at |-> at, own |-> own, names |-> names,
      target |-> target, used |-> used ]

\* QdrantClient(location=":memory:"): a client of its own, without collections
QdrantClient == [ collection |-> FALSE, points |-> 0 ]

\* lines 39-42: no client, no vector store (0 is None; a client is named by
\* its position in clients, a vector store by the client it wraps)
RagInit ==
    /\ state = create_initial_state
    /\ pc = "rag"
    /\ trace = <<>>
    /\ max_audit_revisions \in {2}
    /\ RISK_CALCULATOR_AVAILABLE \in {TRUE}
    /\ call \in [ phase : {"rag"}, _client : {0}, _vector_store : {0},
                  clients : {<<>>}, stores : {0},
                  calls : [ 1..MaxCalls ->
                             { RagCall(method, "called", 0, FALSE, 0, 0) :
                                 method \in {"ingest_document", "similarity_search"} } ] ]
    /\ NoRequests

\* the call moves on
Moves(c, to) == [call EXCEPT !.calls[c].at = to]

\* lines 27-28 and 53-56: `if self._vector_store is None`, then _initialize
\* up to its first await: self._client is a new client and get_collections of
\* that client is handed to a thread
Enter(c) ==
    /\ call.calls[c].at = "called"
    /\ call' = IF call._vector_store = 0
               THEN [Moves(c, "get_collections") EXCEPT
                        !.clients = Append(@, QdrantClient),
                        !._client = Len(call.clients) + 1,
                        !.calls[c].own = Len(call.clients) + 1]
               ELSE Moves(c, "method")
    /\ UNCHANGED Untouched

\* line 56, in the thread: the collections of the client the call created
GetCollections(c) ==
    /\ call.calls[c].at = "get_collections"
    /\ call' = [Moves(c, "names") EXCEPT
                   !.calls[c].names = call.clients[call.calls[c].own].collection]
    /\ UNCHANGED Untouched

\* lines 57-68: the call resumes; when the name is missing,
\* self._client.create_collection (of the client held now) goes to a thread
AfterGetCollections(c) ==
    /\ call.calls[c].at = "names"
    /\ call' = IF call.calls[c].names THEN Moves(c, "construct")
               ELSE [Moves(c, "create_collection") EXCEPT !.calls[c].target = call._client]
    /\ UNCHANGED Untouched

\* lines 61-68, in the thread: qdrant's local client raises ValueError when the
\* collection already exists
CreateCollection(c) ==
    /\ call.calls[c].at = "create_collection"
    /\ LET target == call.calls[c].target
       IN  call' = IF call.clients[target].collection THEN Moves(c, "raised")
                   ELSE [Moves(c, "construct") EXCEPT !.clients[target].collection = TRUE]
    /\ UNCHANGED Untouched

\* lines 71-80: QdrantVectorStore(client=self._client, ...) validates that the
\* collection exists in the client held now, then self._vector_store is set
Construct(c) ==
    /\ call.calls[c].at = "construct"
    /\ call' = IF call.clients[call._client].collection
               THEN [Moves(c, "method") EXCEPT !._vector_store = call._client,
                                               !.stores = @ + 1]
               ELSE Moves(c, "raised")
    /\ UNCHANGED Untouched

\* line 29, `return await method(self, ...)`: ingest_document adds its chunks
\* to the collection behind self._vector_store, similarity_search reads it
Method(c) ==
    /\ call.calls[c].at = "method"
    /\ LET store == call._vector_store
       IN  call' = IF call.calls[c].method = "ingest_document"
                   THEN [Moves(c, "returned") EXCEPT !.calls[c].used = store,
                                                     !.clients[store].points = @ + 1]
                   ELSE [Moves(c, "returned") EXCEPT !.calls[c].used = store]
    /\ UNCHANGED Untouched

RagNext ==
    \/ \E c \in 1..MaxCalls : Enter(c)
    \/ \E c \in 1..MaxCalls : GetCollections(c)
    \/ \E c \in 1..MaxCalls : AfterGetCollections(c)
    \/ \E c \in 1..MaxCalls : CreateCollection(c)
    \/ \E c \in 1..MaxCalls : Construct(c)
    \/ \E c \in 1..MaxCalls : Method(c)

RagSpec == RagInit /\ [][RagNext]_vars

\* ------------------------------- nodes/grader.py: grade_and_route_node's gather
\* the two sibling tasks; each awaits one LLM call and catches its failure
Tasks == {"_grade", "_route"}

\* what a finished task returned to asyncio.gather
task_result(c, task) ==
    LET st == [create_initial_state EXCEPT !.context = c.context]
    IN  IF task = "_grade"
        THEN _grade_documents_node(st, c.grade_reply, c.is_data_heavy, 3, FALLBACK_DOCS)
        ELSE [domain |-> route_question(c.route_reply)]

GatherInit ==
    /\ state = create_initial_state
    /\ pc = "grade_and_route"
    /\ trace = <<>>
    /\ max_audit_revisions \in {2}
    /\ RISK_CALCULATOR_AVAILABLE \in {TRUE}
    /\ call \in [ phase : {"gathering"}, context : Contexts,
                   grade_reply : Outcomes({r \in BatchReplies : Len(r) <= 1}),
                   route_reply : Outcomes(RouterReplies),
                   is_data_heavy : BOOLEAN,
                   awaiting : {{}}, finished : {<<>>}, selected : {"none"} ]
    /\ NoRequests

\* a task runs up to its llm.ainvoke
TaskStarts(task) ==
    /\ call.phase = "gathering"
    /\ task \notin call.awaiting
    /\ \A i \in DOMAIN call.finished : call.finished[i] # task
    /\ call' = [call EXCEPT !.awaiting = @ \cup {task}]
    /\ UNCHANGED Untouched

\* its LLM call returns or raises and the task runs to its return
TaskFinishes(task) ==
    /\ call.phase = "gathering"
    /\ task \in call.awaiting
    /\ call' = [call EXCEPT !.awaiting = @ \ {task}, !.finished = Append(@, task)]
    /\ UNCHANGED Untouched

\* variant of the node that returns once the first task has finished
GatherReturnsOnFirst ==
    /\ call.phase = "gathering"
    /\ Len(call.finished) >= 1
    /\ state' = Merge([create_initial_state EXCEPT !.context = call.context],
                      task_result(call, call.finished[1]))
    /\ call' = [call EXCEPT !.phase = "returned"]
    /\ UNCHANGED <<pc, trace, Config, Api>>

\* lines 132-135: gather has both results, merged = {**grade_result, **route_result}
GatherReturns ==
    /\ call.phase = "gathering"
    /\ Len(call.finished) = Cardinality(Tasks)
    /\ state' = Merge([create_initial_state EXCEPT !.context = call.context],
                      Merge(Merge([filtered_context |-> <<>>, domain |-> ""],
                                  task_result(call, "_grade")),
                            task_result(call, "_route")))
    /\ call' = [call EXCEPT !.phase = "returned"]
    /\ UNCHANGED <<pc, trace, Config, Api>>

\* the engine evaluates the conditional edge on the merged state
SelectorRuns ==
    /\ call.phase = "returned"
    /\ call' = [call EXCEPT !.phase = "routed", !.selected = route_after_router(state)]
    /\ UNCHANGED Untouched

GatherNext ==
    \/ \E task \in Tasks : TaskStarts(task)
    \/ \E task \in Tasks : TaskFinishes(task)
    \/ GatherReturns
    \/ SelectorRuns

GatherSpec == GatherInit /\ [][GatherNext]_vars

\* ------------------------------------------------------------ core/cache.py
\* an item of the OrderedDict: key -> (ts, value)
CacheEntry(key, ts, value) == [key |-> key, ts |-> ts, value |-> value]

HasKey(store, key) == \E i \in DOMAIN store : store[i].key = key
EntryOf(store, key) == store[CHOOSE i \in DOMAIN store : store[i].key = key]
Without(store, key) == SelectSeq(store, LAMBDA e : e.key # key)

\* variant of get that treats an entry of age ttl as expired
get_expiring_at_ttl(store, key, t, ttl) ==
    IF ~HasKey(store, key)
    THEN [store |-> store, hit |-> FALSE, value |-> None]
    ELSE IF t - EntryOf(store, key).ts >= ttl
    THEN [store |-> Without(store, key), hit |-> FALSE, value |-> None]
    ELSE [store |-> Append(Without(store, key), EntryOf(store, key)),
          hit |-> TRUE, value |-> EntryOf(store, key).value]

\* TTLCache.get at time t: the store afterwards and the value returned
\* (hit is `value is not None`)
get(store, key, t, ttl) ==
    IF ~HasKey(store, key)
    THEN [store |-> store, hit |-> FALSE, value |-> None]
    ELSE IF t - EntryOf(store, key).ts > ttl
    THEN [store |-> Without(store, key), hit |-> FALSE, value |-> None]
    ELSE [store |-> Append(Without(store, key), EntryOf(store, key)),
          hit |-> TRUE, value |-> EntryOf(store, key).value]

\* while len(self._store) > self._max_size: self._store.popitem(last=False)
RECURSIVE evict(_, _)
evict(store, max_size) ==
    IF Len(store) > max_size THEN evict(Tail(store), max_size) ELSE store

\* variant of set whose loop pops the most recently used item
set_evicting_newest(store, key, value, t, max_size) ==
    LET placed == Append(Without(store, key), CacheEntry(key, t, value))
    IN  IF Len(placed) > max_size THEN SubSeq(placed, 1, max_size) ELSE placed

\* TTLCache.set at time t
set(store, key, value, t, max_size) ==
    evict(Append(Without(store, key), CacheEntry(key, t, value)), max_size)

\* TTLCache.clear
clear == <<>>

\* ------------------------------------------- api/routes: /chat, /ingest, /index
MaxRequests == 2
MaxRuns == 3
MaxClock == 2

\* settings.cache_ttl_seconds has ge=10; the clock is read every MIN_TTL seconds
MIN_TTL == 10

Questions ==
    { Word("q1", FALSE, FALSE), Word("q1", TRUE, TRUE), Word("q2", FALSE, FALSE) }

\* variant of _cache_key that hashes the question as typed
cache_key_as_typed(question) == [sha256 |-> question]

\* hashlib.sha256(question.strip().lower().encode()).hexdigest()
cache_key(question) == [sha256 |-> StripLower(question)]

\* build_query_response(result) of the pipeline run `run`
QueryResponse(run) == [answer_of_run |-> run]

\* how the last request ended; stored_at is the time of its cache write
Ended(kind, question, response, hit, stored_at) ==
    [ kind |-> kind, question |-> question, response |-> response, hit |-> hit,
      stored_at |-> stored_at ]

\* a request that built no response and wrote no entry
EndedWithout(kind, question) == Ended(kind, question, QueryResponse(0), FALSE, -1)

\* a request without question
NoQuestion == Word("", FALSE, FALSE)

ChatInit ==
    /\ state = create_initial_state
    /\ pc = "api"
    /\ trace = <<>>
    /\ max_audit_revisions \in {2}
    /\ RISK_CALCULATOR_AVAILABLE \in {TRUE}
    /\ call = NoCall
    /\ response_cache = <<>>
    /\ now = 0
    /\ requests = {}
    /\ runs = 0
    /\ last = EndedWithout("startup", NoQuestion)
    /\ cache_ttl_seconds \in {MIN_TTL, 2 * MIN_TTL}
    /\ cache_max_size \in 1..2

Frozen == <<state, pc, trace, Config, call, cache_ttl_seconds, cache_max_size>>

\* variant of chat in which a miss joins a pipeline already running for the
\* same key instead of starting one
ChatArriveJoining(question) ==
    /\ LET key == cache_key(question)
           cached == get(response_cache, key, now, cache_ttl_seconds)
           running == {r \in requests : cache_key(r.question) = key}
       IN  /\ response_cache' = cached.store
           /\ IF cached.hit
              THEN /\ last' = Ended("chat", question, cached.value, TRUE, -1)
                   /\ UNCHANGED <<requests, runs>>
              ELSE /\ Cardinality(requests) < MaxRequests
                   /\ runs < MaxRuns
                   /\ IF running = {}
                      THEN /\ runs' = runs + 1
                           /\ requests' = requests \cup
                                      {[question |-> question, run |-> runs + 1]}
                      ELSE /\ runs' = runs
                           /\ requests' = requests \cup
                                      {[question |-> question,
                                        run |-> (CHOOSE r \in running : TRUE).run]}
                   /\ UNCHANGED last
    /\ UNCHANGED <<now, Frozen>>

\* chat.py:46-54: the lookup, then either the cached response or the
\* pipeline is started and the handler waits for it
ChatArrive(question) ==
    /\ LET key == cache_key(question)
           cached == get(response_cache, key, now, cache_ttl_seconds)
       IN  /\ response_cache' = cached.store
           /\ IF cached.hit
              THEN /\ last' = Ended("chat", question, cached.value, TRUE, -1)
                   /\ UNCHANGED <<requests, runs>>
              ELSE /\ Cardinality(requests) < MaxRequests
                   /\ runs < MaxRuns
                   /\ runs' = runs + 1
                   /\ requests' = requests \cup
                                      {[question |-> question, run |-> runs + 1]}
                   /\ UNCHANGED last
    /\ UNCHANGED <<now, Frozen>>

\* chat.py:54-58: the pipeline returned and the response was built
ChatRespond(request) ==
    /\ response_cache' = set(response_cache, cache_key(request.question),
                             QueryResponse(request.run), now, cache_max_size)
    /\ last' = Ended("chat", request.question, QueryResponse(request.run), FALSE, now)
    /\ requests' = requests \ {request}
    /\ UNCHANGED <<now, runs, Frozen>>

\* variant of the failure path that caches the pipeline's partial result
ChatRaiseCaching(request) ==
    /\ response_cache' = set(response_cache, cache_key(request.question),
                             QueryResponse(request.run), now, cache_max_size)
    /\ last' = EndedWithout("chat_error", request.question)
    /\ requests' = requests \ {request}
    /\ UNCHANGED <<now, runs, Frozen>>

\* chat.py:59-64: ainvoke or build_query_response raised: HTTP 500
ChatRaise(request) ==
    /\ last' = EndedWithout("chat_error", request.question)
    /\ requests' = requests \ {request}
    /\ UNCHANGED <<response_cache, now, runs, Frozen>>

\* CancelledError at `await rfp_app.ainvoke`: not an Exception, no handler runs
ChatCancel(request) ==
    /\ last' = EndedWithout("chat_cancelled", request.question)
    /\ requests' = requests \ {request}
    /\ UNCHANGED <<response_cache, now, runs, Frozen>>

\* invalidate_cache()
invalidate_cache == response_cache' = clear

\* variant of ingest_document that leaves the response cache alone
ingest_without_invalidation(ok) ==
    /\ last' = EndedWithout(IF ok THEN "ingest" ELSE "ingest_error", NoQuestion)
    /\ UNCHANGED <<response_cache, now, requests, runs, Frozen>>

\* documents.py:17-44: a PDF ingested (then the cache is invalidated), or HTTP 400 / 500
ingest_document(ok) ==
    /\ IF ok
       THEN invalidate_cache /\ last' = EndedWithout("ingest", NoQuestion)
       ELSE last' = EndedWithout("ingest_error", NoQuestion)
            /\ UNCHANGED response_cache
    /\ UNCHANGED <<now, requests, runs, Frozen>>

\* documents.py:47-59: rag.clear_index() returned True, or returned False / raised
clear_index(success) ==
    /\ IF success
       THEN invalidate_cache /\ last' = EndedWithout("clear_index", NoQuestion)
       ELSE last' = EndedWithout("clear_index_error", NoQuestion)
            /\ UNCHANGED response_cache
    /\ UNCHANGED <<now, requests, runs, Frozen>>

\* time passes
Tick ==
    /\ now < MaxClock * MIN_TTL
    /\ now' = now + MIN_TTL
    /\ UNCHANGED <<response_cache, requests, runs, last, Frozen>>

ChatNext ==
    \/ \E question \in Questions : ChatArrive(question)
    \/ \E request \in requests : ChatRespond(request)
    \/ \E request \in requests : ChatRaise(request)
    \/ \E request \in requests : ChatCancel(request)
    \/ \E ok \in BOOLEAN : ingest_document(ok)
    \/ \E success \in BOOLEAN : clear_index(success)
    \/ Tick

ChatSpec == ChatInit /\ [][ChatNext]_vars

\* ------------------- /chat and /chat/stream next to /ingest and DELETE /index
\* successful changes of the index that one behaviour makes
MaxIngests == 1

\* the QueryResponse built from a pipeline run whose retrieve node searched
\* the index as it was after `searched` successful changes
AnswerFrom(question, searched) ==
    [ answer_to |-> cache_key(question), searched |-> searched ]

\* a request waiting in rfp_app.ainvoke; searched is -1 until retrieve ran
Waiting(route, question, searched) ==
    [ route |-> route, question |-> question, searched |-> searched ]

ServeInit ==
    /\ state = create_initial_state
    /\ pc = "serve"
    /\ trace = <<>>
    /\ max_audit_revisions \in {2}
    /\ RISK_CALCULATOR_AVAILABLE \in {TRUE}
    /\ call = [phase |-> "index", changes |-> 0]
    /\ response_cache = <<>>
    /\ now = 0
    /\ requests = {}
    /\ runs = 0
    /\ last = Ended("startup", NoQuestion, AnswerFrom(NoQuestion, -1), FALSE, -1)
    /\ cache_ttl_seconds \in {MIN_TTL}
    /\ cache_max_size \in {2}

Still == <<state, pc, trace, Config, now, runs, cache_ttl_seconds, cache_max_size>>

\* chat.py:46-54: the lookup, then the cached response or the pipeline
ServeChat(question) ==
    /\ LET cached == get(response_cache, cache_key(question), now, cache_ttl_seconds)
       IN  /\ response_cache' = cached.store
           /\ IF cached.hit
              THEN /\ last' = Ended("chat", question, cached.value, TRUE, -1)
                   /\ UNCHANGED requests
              ELSE /\ Cardinality(requests) < MaxRequests
                   /\ requests' = requests \cup {Waiting("chat", question, -1)}
                   /\ UNCHANGED last
    /\ UNCHANGED <<call, Still>>

\* chat.py:67-74: no lookup; the generator starts the pipeline
ServeStream(question) ==
    /\ Cardinality(requests) < MaxRequests
    /\ requests' = requests \cup {Waiting("chat_stream", question, -1)}
    /\ UNCHANGED <<call, response_cache, last, Still>>

\* rfp_graph.py:105-137 inside ainvoke: the request's retrieve node searches
\* the index as it is now
PipelineRetrieves(request) ==
    /\ request \in requests
    /\ request.searched = -1
    /\ requests' = (requests \ {request})
                     \cup {Waiting(request.route, request.question, call.changes)}
    /\ UNCHANGED <<call, response_cache, last, Still>>

\* chat.py:54-58: ainvoke returned; the response is stored and returned
ChatStores(request) ==
    /\ request \in requests
    /\ request.route = "chat"
    /\ request.searched >= 0
    /\ LET response == AnswerFrom(request.question, request.searched)
       IN  /\ response_cache' = set(response_cache, cache_key(request.question),
                                    response, now, cache_max_size)
           /\ last' = Ended("chat", request.question, response, FALSE, now)
    /\ requests' = requests \ {request}
    /\ UNCHANGED <<call, Still>>

\* variant of the end of chat_stream that stores the response it yields
StreamYieldsAndStores(request) ==
    /\ request \in requests
    /\ request.route = "chat_stream"
    /\ request.searched >= 0
    /\ LET response == AnswerFrom(request.question, request.searched)
       IN  /\ response_cache' = set(response_cache, cache_key(request.question),
                                    response, now, cache_max_size)
           /\ last' = Ended("chat_stream", request.question, response, FALSE, -1)
    /\ requests' = requests \ {request}
    /\ UNCHANGED <<call, Still>>

\* chat.py:74-76: ainvoke returned; the result event is yielded
StreamYields(request) ==
    /\ request \in requests
    /\ request.route = "chat_stream"
    /\ request.searched >= 0
    /\ last' = Ended("chat_stream", request.question,
                     AnswerFrom(request.question, request.searched), FALSE, -1)
    /\ requests' = requests \ {request}
    /\ UNCHANGED <<call, response_cache, Still>>

\* chat.py:59-64 and 77-79: ainvoke or build_query_response raised; /chat
\* answers HTTP 500, the stream yields an error event; nothing is stored
PipelineRaises(request) ==
    /\ request \in requests
    /\ last' = Ended(request.route \o "_error", request.question,
                     AnswerFrom(NoQuestion, -1), FALSE, -1)
    /\ requests' = requests \ {request}
    /\ UNCHANGED <<call, response_cache, Still>>

\* documents.py:31-35 and 50-55: rag.ingest_document or rag.clear_index, and
\* invalidate_cache() when it succeeded
IndexChanges(handler, success) ==
    /\ IF success
       THEN /\ call.changes < MaxIngests
            /\ call' = [call EXCEPT !.changes = @ + 1]
            /\ response_cache' = clear
       ELSE UNCHANGED <<call, response_cache>>
    /\ last' = Ended(handler, NoQuestion, AnswerFrom(NoQuestion, -1), FALSE, -1)
    /\ UNCHANGED <<requests, Still>>

ServeNext ==
    \/ \E question \in Questions : ServeChat(question)
    \/ \E question \in Questions : ServeStream(question)
    \/ \E request \in requests : PipelineRetrieves(request)
    \/ \E request \in requests : ChatStores(request)
    \/ \E request \in requests : StreamYields(request)
    \/ \E request \in requests : PipelineRaises(request)
    \/ \E handler \in {"ingest", "clear_index"}, success \in BOOLEAN :
          IndexChanges(handler, success)

ServeSpec == ServeInit /\ [][ServeNext]_vars

\* --------------------------------------------- a TTLCache used on its own
CacheInit ==
    /\ state = create_initial_state
    /\ pc = "cache"
    /\ trace = <<>>
    /\ max_audit_revisions \in {2}
    /\ RISK_CALCULATOR_AVAILABLE \in {TRUE}
    /\ call = NoCall
    /\ response_cache = <<>>
    /\ now = 0
    /\ requests = {}
    /\ runs = 0
    /\ last = EndedWithout("startup", NoQuestion)
    /\ cache_ttl_seconds \in {MIN_TTL, 2 * MIN_TTL}
    /\ cache_max_size \in 1..2

\* a method was called at time `now` on the store `before`
Called(op, key, hit, value) ==
    [ op |-> op, key |-> key, before |-> response_cache, at |-> now,
      hit |-> hit, value |-> value ]

NotApi == <<state, pc, trace, Config, cache_ttl_seconds, cache_max_size,
            requests, runs, last>>

CacheGet(key) ==
    /\ LET got == get(response_cache, key, now, cache_ttl_seconds)
       IN  /\ response_cache' = got.store
           /\ call' = Called("get", key, got.hit,
                                 IF got.hit THEN got.value ELSE QueryResponse(0))
    /\ UNCHANGED <<now, NotApi>>

CacheSet(key, value) ==
    /\ response_cache' = set(response_cache, key, value, now, cache_max_size)
    /\ call' = Called("set", key, FALSE, value)
    /\ UNCHANGED <<now, NotApi>>

CacheClear ==
    /\ response_cache' = clear
    /\ call' = Called("clear", cache_key(NoQuestion), FALSE, QueryResponse(0))
    /\ UNCHANGED <<now, NotApi>>

\* the keys in use: more of them than the cache can hold
CacheKeys == { cache_key(question) : question \in Questions \cup {Word("q3", FALSE, FALSE)} }

CacheNext ==
    \/ \E key \in CacheKeys : CacheGet(key)
    \/ \E key \in CacheKeys, run \in 1..MaxRuns : CacheSet(key, QueryResponse(run))
    \/ CacheClear
    \/ Tick

CacheSpec == CacheInit /\ [][CacheNext]_vars

\* ================================================================ properties
Terminal == pc = "END"

\* positions of the trace at which `node` executed
Runs(node) == {i \in DOMAIN trace : trace[i].node = node}

\* the node that executed last
LastNode == IF trace = <<>> THEN "START" ELSE trace[Len(trace)].node

\* every audit of the run so far ended with compliance "rejected"
AlwaysRejected ==
    /\ Runs("risk_sentinel") # {}
    /\ \A i \in Runs("risk_sentinel") : trace[i].outcome = "rejected"

\* C1: in every terminal state revision_count <= max_audit_revisions, for
\* every configured max_audit_revisions in 0..10 and every sequence of
\* risk-sentinel verdicts.
C1_RevisionCountBounded ==
    Terminal => state.revision_count <= max_audit_revisions

\* C2: whenever the selector is consulted (the risk sentinel has just run),
\* should_continue_after_audit returns "refine" exactly when audit_result is
\* "fail" and revision_count < max_audit_revisions, and "end" otherwise, for
\* every configured max_audit_revisions in 0..10.
C2_SelectorFollowsSetting ==
    LastNode = "risk_sentinel" =>
        /\ should_continue_after_audit(state) \in {"refine", "end"}
        /\ should_continue_after_audit(state) = "refine"
             <=> (state.audit_result = "fail"
                  /\ state.revision_count < max_audit_revisions)

\* C3: every run eventually reaches END, whatever the LLM replies and
\* whichever LLM or retrieval calls raise; no node lets an exception escape
\* (a run whose node raised never reaches END).
C3_EventuallyEnd == <>(pc = "END")

\* a finished run in which retrieval-grading raised, the sentinel rejected
\* every time and every refine call raised
C3_Witness ==
    /\ Terminal
    /\ AlwaysRejected
    /\ Cardinality(Runs("refine")) = LEGACY_MAX_REVISIONS
    /\ \A i \in Runs("refine") : trace[i].outcome = "raised"
    /\ \E i \in Runs("grade_documents") : trace[i].outcome = "raised"

\* C4: with max_audit_revisions = 2 and a sentinel that returns "rejected"
\* on every audit, the finished run has executed refine exactly 2 times and
\* ends with audit_result = "fail" and revision_count = 2.
C4_RejectedRunRefinesTwice ==
    (Terminal /\ max_audit_revisions = 2 /\ AlwaysRejected) =>
        /\ Cardinality(Runs("refine")) = 2
        /\ state.audit_result = "fail"
        /\ state.revision_count = 2

C4_Witness ==
    /\ Terminal
    /\ max_audit_revisions = 2
    /\ AlwaysRejected
    /\ Cardinality(Runs("risk_sentinel")) = 3

\* C5: every terminal state in which no_documents is not true has
\* audit_result = "pass" or revision_count = max_audit_revisions, for every
\* configured max_audit_revisions.
C5_NoEarlyFailedEnd ==
    (Terminal /\ state.no_documents # PyTrue) =>
        \/ state.audit_result = "pass"
        \/ state.revision_count = max_audit_revisions

\* C6: in every terminal state the answer is a non-empty string, for every
\* content the specialist, quant-insight and refine LLM calls may return
\* (an empty or whitespace-only reply included) and every failure of them.
C6_AnswerNonEmpty ==
    Terminal => state.answer.len > 0

\* the run started with similarity_search returning / raising
SearchWas(outcome) == trace # <<>> /\ trace[1].outcome = outcome

\* C7: when similarity_search returns an empty sequence the run goes
\* retrieve -> END: no other node executes and no LLM call is made; and
\* every state with no_documents = true has context = [], domain = "none",
\* audit_result = "pass", risk_level unset and the fixed message as answer.
C7_NoDocumentsShortCircuit ==
    /\ SearchWas("empty") =>
            /\ Terminal
            /\ Len(trace) = 1
            /\ trace[1].node = "retrieve"
            /\ trace[1].llm = 0
    /\ state.no_documents = PyTrue =>
            /\ state.context = <<>>
            /\ state.domain = "none"
            /\ state.audit_result = "pass"
            /\ state.risk_level = None
            /\ state.answer = NO_DOCUMENTS_MESSAGE

C7_Witness ==
    SearchWas("empty") /\ Terminal /\ state.no_documents = PyTrue

\* what C8 says of retrieve itself: only context and revision_count are
\* emitted, no_documents stays unset, the run goes on to grading
RetrieveFailureContained ==
    /\ trace[1].keys = {"context", "revision_count"}
    /\ state.context = <<>>
    /\ state.no_documents = None
    /\ Len(trace) = 1 => (pc = "grade_documents" /\ state.revision_count = 0)

SpecialistRaised == \E i \in Runs("specialist") : trace[i].outcome = "raised"

\* C9: when the specialist's LLM call raises, the specialist sets answer to
\* a string starting with "Error en el agente", the sentinel then approves
\* without an LLM call, refine never executes, and the run ends with
\* audit_result = "pass" and revision_count = 0.
C9_SpecialistFailureIsolated ==
    SpecialistRaised =>
        /\ state.answer.pre
        /\ Runs("refine") = {}
        /\ \A i \in Runs("risk_sentinel") :
              trace[i].llm = 0 /\ trace[i].outcome = "approved"
        /\ LastNode = "specialist" => pc = "risk_sentinel"
        /\ LastNode = "risk_sentinel" => Terminal
        /\ Terminal => (state.audit_result = "pass" /\ state.revision_count = 0)

C9_Witness ==
    SpecialistRaised /\ Terminal /\ LastNode = "risk_sentinel"

\* C10: whenever the deterministic scorer is invoked and recommends NO_GO,
\* risk_audit returns compliance_status = "rejected" and gate_passed = false,
\* hence audit_result = "fail", whatever the LLM reported.
C10_NoGoRejects ==
    (LastNode = "risk_sentinel" /\ trace[Len(trace)].rec = "NO_GO") =>
        /\ state.compliance_status = "rejected"
        /\ state.gate_passed = PyFalse
        /\ state.audit_result = "fail"


\* ------------------------------------------------ risk_audit, called alone
Returned == call.phase = "returned"

\* the LLM answered with JSON that lists at least one well-formed risk factor
ReplyHasGoodFactor(reply) ==
    /\ ~reply.raised
    /\ reply.value.parsed
    /\ reply.value.has_risk_factors
    /\ \E i \in DOMAIN reply.value.risk_factors : factor_ok(reply.value.risk_factors[i])

\* C11: whenever the scorer recommends REVIEW, risk_audit returns compliance
\* pending, risk level medium and gate_passed true, whatever the score.
C11_ReviewIsPending ==
    (Returned /\ call.result.assessment.recommendation = "REVIEW")
    => /\ call.result.compliance = "pending"
       /\ call.result.risk_level = "medium"
       /\ call.result.gate_passed = PyTrue

\* C12: with the skill available and a reply listing at least one well-formed
\* risk factor, the returned issues hold a [RiskScore] entry, and a GO
\* recommendation gives low / approved / gate passed.
C12_ScorerIsUsed ==
    (Returned /\ RISK_CALCULATOR_AVAILABLE /\ ReplyHasGoodFactor(call.reply))
    => /\ \E i \in DOMAIN call.result.issues :
              call.result.issues[i] = "[RiskScore] Score"
       /\ call.result.assessment.recommendation = "GO"
            => /\ call.result.risk_level = "low"
               /\ call.result.compliance = "approved"
               /\ call.result.gate_passed = PyTrue

\* the audit LLM was asked and raised, or answered with text that is not JSON
AuditLLMFailed ==
    /\ Returned
    /\ call.result.llm = 1
    /\ IF call.reply.raised THEN TRUE ELSE ~call.reply.value.parsed

\* C13: when the audit's LLM call raises or its reply is not JSON, the node
\* emits medium / approved / gate passed and audit_result pass; on a reply
\* that is not JSON risk_issues is empty.
C13_AuditFailurePasses ==
    AuditLLMFailed
    => /\ call.update.risk_level = "medium"
       /\ call.update.compliance_status = "approved"
       /\ call.update.gate_passed = PyTrue
       /\ call.update.audit_result = "pass"
       /\ ~call.reply.raised => call.update.risk_issues = <<>>

C13_Witness ==
    /\ AuditLLMFailed
    /\ call.reply.raised
    /\ call.update.audit_result = "pass"

\* ------------------------------------------------- /chat and the response cache
\* a /chat request that missed the cache starts its pipeline run in this step
Started == requests' \ requests

\* a /chat request that was waiting for its pipeline run ends in this step
Finished == requests \ requests'

\* a /chat request is answered from the cache in this step
ServedFromCache == last' # last /\ last'.kind = "chat" /\ last'.hit

\* the request that ended last ran the pipeline and stored its response no
\* more than the TTL ago
StoredWithinTTL ==
    /\ last.kind = "chat"
    /\ ~last.hit
    /\ now - last.stored_at <= cache_ttl_seconds

\* C14: of two successive /chat calls with questions equal after trim and
\* lowercase, the second made within the TTL of the first's cache write and
\* no other request ending in between, the second starts no pipeline run
\* and returns exactly the response the first stored.
C14_SecondCallServedFromCache ==
    [][ StoredWithinTTL =>
          /\ \A request \in Started :
                StripLower(request.question) # StripLower(last.question)
          /\ (ServedFromCache
               /\ StripLower(last'.question) = StripLower(last.question))
              => (last'.response = last.response /\ runs' = runs) ]_vars

C14_Witness ==
    /\ last.kind = "chat"
    /\ last.hit
    /\ last.question = Word("q1", TRUE, TRUE)
    /\ runs = 1

Invalidated == last.kind \in {"ingest", "clear_index"}

\* C15: once POST /ingest or DELETE /index has completed successfully the
\* response cache is empty, and the next /chat, whatever its question, is
\* not served from the cache.
C15_InvalidationEmptiesCache ==
    [][ /\ Invalidated' => response_cache' = <<>>
        /\ Invalidated => ~ServedFromCache ]_vars

C15_Witness ==
    /\ Invalidated
    /\ runs > 0
    /\ \E request \in requests : request.run > 1

\* C16: when a /chat request is cancelled during its pipeline run, or the
\* run or the response building raises, the response cache is left as it
\* was; an entry is written only by a request that built its response.
C16_FailedChatWritesNothing ==
    [][ /\ (Finished # {} /\ last'.kind \in {"chat_error", "chat_cancelled"})
            => response_cache' = response_cache
        /\ \A i \in DOMAIN response_cache' :
              (\A j \in DOMAIN response_cache : response_cache[j] # response_cache'[i])
              => /\ last'.kind = "chat"
                 /\ ~last'.hit
                 /\ response_cache'[i] =
                        CacheEntry(cache_key(last'.question), now, last'.response)
                 /\ Finished # {} ]_vars

C16_Witness ==
    /\ last.kind \in {"chat_error", "chat_cancelled"}
    /\ response_cache # <<>>

\* ---------------------------------------------------------------- TTLCache
\* the items of a store other than `key`, least recently used first
Others(store, key) == SelectSeq(store, LAMBDA e : e.key # key)

\* the stored age of `key` when the last method was called, if it was stored
StoredBefore(i) ==
    i \in DOMAIN call.before /\ call.before[i].key = call.key

\* C17: get returns a value only if it was stored no more than ttl_seconds
\* ago; on an older item it removes the item and returns nothing; on an item
\* of age at most ttl_seconds (the boundary included) it returns the stored
\* value and makes the key the most recently used; on a key that is not
\* stored it changes nothing.
C17_GetRespectsTTL ==
    call.op = "get" =>
      /\ \A i \in DOMAIN call.before :
            StoredBefore(i) =>
              IF call.at - call.before[i].ts <= cache_ttl_seconds
              THEN /\ call.hit
                   /\ call.value = call.before[i].value
                   /\ response_cache =
                        Append(Others(call.before, call.key), call.before[i])
              ELSE /\ ~call.hit
                   /\ response_cache = Others(call.before, call.key)
      /\ (~\E i \in DOMAIN call.before : StoredBefore(i))
            => (~call.hit /\ response_cache = call.before)

\* a key of age exactly ttl_seconds was read, with another key stored after it
C17_Witness ==
    /\ call.op = "get"
    /\ call.hit
    /\ Len(call.before) = 2
    /\ StoredBefore(1)
    /\ call.at - call.before[1].ts = cache_ttl_seconds

\* C18: the cache never holds more than max_size items; set makes its key the
\* most recently used and drops exactly as many least recently used items
\* as exceed max_size, never the key just set; clear empties the cache.
C18_SetEvictsLeastRecentlyUsed ==
    /\ Len(response_cache) <= cache_max_size
    /\ call.op = "set" =>
         LET placed == Append(Others(call.before, call.key),
                              CacheEntry(call.key, call.at, call.value))
             excess == IF Len(placed) > cache_max_size
                       THEN Len(placed) - cache_max_size ELSE 0
         IN  /\ response_cache = SubSeq(placed, excess + 1, Len(placed))
             /\ response_cache[Len(response_cache)].key = call.key
    /\ call.op = "clear" => response_cache = <<>>

\* a new key was set in a full cache whose older item had been read after
\* the newer one was set
C18_Witness ==
    /\ call.op = "set"
    /\ Len(call.before) = 2
    /\ call.before[1].ts > call.before[2].ts
    /\ ~\E i \in DOMAIN call.before : StoredBefore(i)
    /\ Len(response_cache) = 2

\* ------------------------------------------------------------- the graders
Graded == call.phase = "returned"

\* C19: in every state, every document of filtered_context is a document of
\* context, whatever the grader replied: indices out of range, malformed
\* lines, or a grader that raised.
C19_FilteredWithinContext ==
    \A i \in DOMAIN state.filtered_context :
        \E j \in DOMAIN state.context : state.filtered_context[i] = state.context[j]

\* the batch reply named a document beyond the context and one inside it
C19_Witness ==
    /\ Graded
    /\ call.grader = "_grade_documents_node"
    /\ ~call.reply.raised
    /\ \E i \in DOMAIN call.reply.value :
          /\ call.reply.value[i].number
          /\ call.reply.value[i].index > Len(state.context)
          /\ is_relevant(call.reply.value[i].grade)
    /\ Len(state.filtered_context) = 1
    /\ Len(state.context) = 2

\* `kept` can be obtained from `docs` by deleting documents
IsSubsequence(kept, docs) ==
    \E pos \in [DOMAIN kept -> DOMAIN docs] :
        /\ \A i \in DOMAIN kept : docs[pos[i]] = kept[i]
        /\ \A i, j \in DOMAIN kept : i < j => pos[i] < pos[j]

\* C20: after grading, filtered_context is a subsequence of context: the
\* kept documents are in the order they have in context and none is
\* repeated, in whatever order the reply lists the indices.
C20_FilteredKeepsOrder ==
    Graded => IsSubsequence(state.filtered_context, state.context)

\* the positions in context of the documents the reply grades relevant
GradedRelevant ==
    IF call.grader = "grade_documents_node"
    THEN { i \in DOMAIN call.reply : is_relevant(call.reply[i].value) }
    ELSE { i \in DOMAIN state.context :
             \E k \in DOMAIN call.reply.value :
                /\ call.reply.value[k].colon
                /\ call.reply.value[k].number
                /\ call.reply.value[k].index = i
                /\ is_relevant(call.reply.value[k].grade) }

GraderAnswered ==
    /\ Graded
    /\ IF call.grader = "grade_documents_node"
       THEN ~GradeRaised(call.reply) ELSE ~call.reply.raised

\* C21: when the question is data-heavy and fewer than safety_net_min_docs
\* documents were graded relevant, or when none was, filtered_context is
\* the first min(safety_net_fallback_docs, len(context)) documents of
\* context; otherwise it holds the documents graded relevant.
C21_SafetyNet ==
    GraderAnswered =>
        IF \/ call.is_data_heavy /\ Cardinality(GradedRelevant) < call.safety_net_min_docs
           \/ GradedRelevant = {}
        THEN state.filtered_context = Take(state.context, call.safety_net_fallback_docs)
        ELSE { state.filtered_context[i] : i \in DOMAIN state.filtered_context }
             = { state.context[i] : i \in GradedRelevant }

\* ------------------------------------------------------------------ routing
Routed == pc = "router" /\ call.phase = "returned"

\* the router's reply after strip() and lower()
NormalisedReply == StripLower(call.reply.value).word

\* C22: once the router has run the domain is one of the seven closed-set
\* names; it is the normalised reply when that is a closed-set name, and
\* "general" for every other reply and for a failed LLM call
\* the only other values of domain are the initial "" and retrieve's "none"
C22_DomainInClosedSet ==
    /\ state.domain \in DOMAINS \cup {"", "none"}
    /\ state.domain = "none" => state.no_documents = PyTrue
    /\ Routed =>
        /\ state.domain \in DOMAINS
        /\ state.domain = IF call.reply.raised THEN "general"
                          ELSE IF NormalisedReply \in DOMAINS
                               THEN NormalisedReply ELSE "general"

C22_Witness ==
    /\ Routed
    /\ ~call.reply.raised
    /\ NormalisedReply = "legal."
    /\ call.reply.value.upper
    /\ state.domain = "general"

\* ------------------------------------------------------ the quantitative branch
\* C23: in every terminal state of a run whose domain is "quantitative" the
\* answer equals quant_insights, whatever the risk sentinel's verdicts were
C23_QuantAnswerIsInsights ==
    (Terminal /\ state.domain = "quantitative") => state.answer = state.quant_insights

\* the router has run and the node it selected has returned
Answered == Runs("router") # {} /\ pc \notin {"quant", "specialist"}

QuantFieldsSet ==
    \/ state.quant_chart # None
    \/ state.quant_chart_type # None
    \/ state.quant_insights # NoneText
    \/ state.quant_data_quality # None

\* C24: the quant node executes exactly in the runs routed to "quantitative"
\* and the specialist exactly in the runs routed elsewhere, and the four quant
\* fields are non-null only in states whose domain is "quantitative"
C24_QuantIffQuantitative ==
    /\ Runs("quant") # {} <=> (Answered /\ state.domain = "quantitative")
    /\ Runs("specialist") # {} <=> (Answered /\ state.domain # "quantitative")
    /\ QuantFieldsSet => state.domain = "quantitative"

C24_Witness ==
    /\ Terminal
    /\ Runs("quant") # {}
    /\ Runs("specialist") = {}
    /\ state.quant_chart = "png"
    /\ state.quant_chart_type = "pie"

\* ---------------------------------------------------------------- /chat/stream
Streaming == pc = "stream"

TerminalEvent(e) == e.event \in {"result", "error"}

\* the stream so far is a prefix of: "status", then one terminal event, which
\* is "result" with the built response on success and "error" otherwise
StreamWellFormed ==
    /\ Len(call.events) <= 2
    /\ Len(call.events) >= 1 => call.events[1].event = "status"
    /\ Len(call.events) = 2 =>
         /\ call.phase = "closed"
         /\ IF call.ainvoke.raised THEN call.events[2].event = "error"
            ELSE IF build_query_response(call.ainvoke.value).raised
            THEN call.events[2].event = "error"
            ELSE call.events[2] =
                   _sse_event("result", build_query_response(call.ainvoke.value).response)

\* C25: every /chat/stream response emits "status" first, then exactly one
\* terminal event ("result" with the final response when the run succeeds,
\* "error" when anything raises), and nothing after it
C25_StreamEndsWithOneTerminalEvent ==
    /\ [](Streaming => StreamWellFormed)
    /\ [](Streaming => (call.phase = "closed" => Len(call.events) = 2))
    /\ <>(Streaming /\ Len(call.events) = 2 /\ TerminalEvent(call.events[2]))

C25_Witness ==
    /\ Streaming
    /\ call.phase = "closed"
    /\ ~call.ainvoke.raised
    /\ call.ainvoke.value.gate_passed = None
    /\ Len(call.events) = 2
    /\ call.events[2].event = "error"

\* ------------------------------------------- AgentFactory and the container
InContainer == pc = "container"

\* the step is a call of factory.create(domain)
CreateStep == call'.last.op = "create"

C27_OverrideReachesAgents ==
    [][ InContainer =>
          LET op == call'.last.op
              returned == call'.last.returned
          IN  /\ op = "override_llm"
                    => call'._llm = call'.last.arg /\ ~call'._agent_factory.built
              /\ op = "reset"
                    => /\ call'._llm = None /\ call'._logger = None
                       /\ ~call'._agent_factory.built
              /\ (op \notin {"override_llm", "reset"} /\ call._llm # None)
                    => call'._llm = call._llm
              /\ op \in {"agent_factory", "agent_factory.create"}
                    => /\ call'._agent_factory.built
                       /\ call'._llm # None /\ call'._logger # None
                       /\ call'._agent_factory.llm = call'._llm
              /\ (op = "agent_factory.create" /\ returned.outcome = "agent")
                    => returned.llm = call'._llm
              /\ (op = "create" /\ returned.outcome = "agent")
                    => returned.llm = call.held.llm ]_vars

\* an agent made through the container after override_llm replaced the LLM
\* a cached factory was built with
C27_Witness ==
    /\ InContainer
    /\ call.last.op = "agent_factory.create"
    /\ call.last.returned.outcome = "agent"
    /\ call.last.returned.llm = "mock_llm"
    /\ call.held.built
    /\ call.held.llm = "get_llm()"

\* ------------------------------------------------- the specialists' generate
Generating == pc = "generate" /\ call.phase = "returned"

\* C28: generate never invokes the LLM when the joined context is empty or
\* whitespace only, and returns its domain's "no relevant information"
\* message; with other contexts it invokes the LLM exactly once and returns
\* the content of its reply
C28_BlankContextSkipsLLM ==
    Generating =>
        IF \A i \in DOMAIN call.context : call.context[i].blank
        THEN /\ call.result.llm = 0
             /\ call.result.outcome = "returned"
             /\ call.result.content = NoInformationMessage(AgentClassDomain[call.agent_class])
        ELSE /\ call.result.llm = 1
             /\ ~call.reply.raised =>
                  /\ call.result.outcome = "returned"
                  /\ call.result.content = call.reply.value

C28_Witness ==
    /\ Generating
    /\ call.agent_class = "FinancialSpecialistAgent"
    /\ call.context = <<[id |-> 1, blank |-> TRUE]>>
    /\ ~call.reply.raised
    /\ call.result.llm = 0
    /\ call.result.content.len = 72

\* ------------------------------------------------------------------ the index
\* a file was ingested under a source name the index already held it under
IngestedAgain ==
    /\ pc = "index"
    /\ call.last.op = "ingest_document"
    /\ call.last.returned >= 0
    /\ call.last.again

NoDuplicates(docs) == \A i, j \in DOMAIN docs : docs[i] = docs[j] => i = j

\* C29: ingesting the same file under the same name again leaves the index
\* as it was: get_indexed_documents reports the same chunk counts and
\* similarity_search returns no chunk twice
C29_IngestIsIdempotent ==
    IngestedAgain =>
        /\ get_indexed_documents(call.points) = get_indexed_documents(call.last.before)
        /\ NoDuplicates(similarity_search(call.points))

\* ------------------------------------------------------------ revision_count
\* C30: revision_count is 0 after retrieve, every execution of refine adds
\* exactly 1 to it whether its LLM call returns or raises, and no other node
\* changes it: it equals the number of refine executions and never decreases
C30_RevisionCountCountsRefines ==
    /\ [](LastNode = "retrieve" => state.revision_count = 0)
    /\ [](pc \in {"grade_documents", "router", "specialist", "quant", "risk_sentinel",
                   "refine", "END"}
            => state.revision_count = Cardinality(Runs("refine")))
    /\ [][ IF pc = "refine"
           THEN state'.revision_count = state.revision_count + 1
           ELSE state'.revision_count = state.revision_count ]_vars

C30_Witness ==
    /\ Terminal
    /\ state.revision_count = 2
    /\ Cardinality(Runs("refine")) = 2
    /\ \E i \in Runs("refine") : trace[i].outcome = "raised"

\* ------------------------------------------------------- the keys nodes write
\* the keys the update of an execution of `node` may hold
OwnKeys(node, outcome) ==
    IF node = "grade_documents" THEN {"filtered_context"}
    ELSE IF node = "router" THEN {"domain"}
    ELSE IF node = "specialist" THEN {"answer"}
    ELSE IF node = "quant"
    THEN {"quant_chart", "quant_chart_type", "quant_insights", "quant_data_quality", "answer"}
    ELSE IF node = "risk_sentinel"
    THEN {"risk_level", "compliance_status", "risk_issues", "gate_passed", "audit_result"}
    ELSE IF node = "refine"
    THEN (IF outcome = "raised" THEN {"revision_count"} ELSE {"answer", "revision_count"})
    ELSE DOMAIN create_initial_state

\* a step of a node after retrieve changes none of the keys of other nodes
KeepsOtherKeys ==
    pc \in {"grade_documents", "router", "specialist", "quant", "risk_sentinel", "refine"}
    => /\ \A k \in DOMAIN state \ OwnKeys(pc, "ok") : state'[k] = state[k]
       /\ state'.question = state.question
       /\ state'.context = state.context

\* C31: the update of every node holds only the node's own keys (grading only
\* filtered_context and routing only domain, the risk sentinel its five keys,
\* refine answer and revision_count and revision_count alone when it fails,
\* the specialist answer), every other key keeps its value across the node,
\* and no node after retrieve changes question, trace_id or context
C31_NodesWriteOwnKeys ==
    /\ [](\A i \in DOMAIN trace :
            /\ trace[i].keys \subseteq OwnKeys(trace[i].node, trace[i].outcome)
            /\ "trace_id" \notin trace[i].keys
            /\ trace[i].node # "retrieve" => trace[i].keys \cap {"question", "context"} = {})
    /\ [][KeepsOtherKeys]_vars

C31_Witness ==
    /\ Terminal
    /\ \E i \in Runs("refine") : trace[i].outcome = "raised" /\ trace[i].keys = {"revision_count"}
    /\ \E i \in Runs("refine") : trace[i].outcome = "ok" /\ trace[i].keys = {"answer", "revision_count"}
    /\ \E i \in Runs("risk_sentinel") : Cardinality(trace[i].keys) = 5
    /\ \E i \in Runs("grade_documents") : trace[i].keys = {"filtered_context"}

\* ------------------------------------------------------- grade_and_route_node
Gathered == pc = "grade_and_route" /\ call.phase \in {"returned", "routed"}

\* the update of running the grader, then the router, one after the other
SequentialUpdate ==
    LET st == [create_initial_state EXCEPT !.context = call.context]
        graded == Merge(st, _grade_documents_node(st, call.grade_reply, call.is_data_heavy,
                                                  3, FALLBACK_DOCS))
    IN  Merge(graded, router_node(graded, call.route_reply))

\* C32: whichever of the grader and the router sub-tasks finishes first, and
\* whichever LLM call fails, grade_and_route returns the filtered_context and
\* domain that running them one after the other gives, and route_after_router
\* runs only after both sub-tasks have finished
C32_GatherIsOrderIndependent ==
    pc = "grade_and_route" =>
        /\ Gathered => /\ Len(call.finished) = 2
                       /\ state = SequentialUpdate
        /\ call.selected # "none" =>
              /\ Len(call.finished) = 2
              /\ call.selected = route_after_router(SequentialUpdate)

C32_Witness ==
    /\ pc = "grade_and_route"
    /\ call.phase = "routed"
    /\ call.finished = <<"_route", "_grade">>
    /\ call.grade_reply.raised
    /\ ~call.route_reply.raised
    /\ call.selected = "quant"

\* ------------------------------------------------------------- the node order
Count(node) == Cardinality(Runs(node))

\* the nodes executed so far came in graph order
InGraphOrder ==
    \A i \in DOMAIN trace :
        /\ i = 1 <=> trace[i].node = "retrieve"
        /\ i = 2 <=> trace[i].node = "grade_documents"
        /\ i = 3 <=> trace[i].node = "router"
        /\ i = 4 <=> trace[i].node \in {"specialist", "quant"}
        /\ i >= 5 => trace[i].node = (IF trace[i - 1].node = "refine"
                                      THEN "risk_sentinel" ELSE
                                      IF trace[i - 1].node = "risk_sentinel"
                                      THEN "refine" ELSE "risk_sentinel")

\* C33: in a run whose retrieval was not empty the nodes execute one at a
\* time in graph order: retrieve, grading and routing once each, then exactly
\* one of specialist and quant, once; every refine is immediately followed by
\* a risk_sentinel, which has executed (number of refines + 1) times at the end
C33_NodesRunInGraphOrder ==
    /\ pc \in {"retrieve", "grade_documents", "router", "specialist", "quant",
                "risk_sentinel", "refine", "END"} => InGraphOrder
    /\ pc = "risk_sentinel" => Len(trace) >= 4 /\ Count("risk_sentinel") = Count("refine")
    /\ pc = "refine" => Count("risk_sentinel") = Count("refine") + 1
    /\ (Terminal /\ state.no_documents # PyTrue)
         => /\ Count("retrieve") = 1
            /\ Count("grade_documents") = 1
            /\ Count("router") = 1
            /\ Count("specialist") + Count("quant") = 1
            /\ Count("risk_sentinel") = Count("refine") + 1
            /\ \A i \in Runs("refine") : i < Len(trace) /\ trace[i + 1].node = "risk_sentinel"

C33_Witness ==
    /\ Terminal
    /\ state.context # <<>>
    /\ Count("refine") = 2
    /\ Count("risk_sentinel") = 3
    /\ Count("quant") = 1
    /\ Count("specialist") = 0


\* ----------------------------------------------- the cache and the index
Serving == pc = "serve"

\* C34: after a successful ingest or index clear, a /chat cache hit never
\* returns a response whose retrieval searched the index as it was before that
\* change, also when a request was waiting for its pipeline at the time.
C34_NoStaleHitAfterIndexChange ==
    (Serving /\ last.kind = "chat" /\ last.hit)
        => last.response.searched = call.changes


\* requests for one normalized question that are waiting for their pipelines
SameQuestion(a, b) == cache_key(a.question) = cache_key(b.question)

\* the /chat request that ends in this step returns the response of its own run
ReturnsOwnRun ==
    (pc = "api" /\ Finished # {} /\ last'.kind = "chat")
        => \E request \in Finished : last'.response = QueryResponse(request.run)

\* C35 (as stated): /chat requests with the same normalized question that
\* arrive while the cache holds no live entry share one pipeline execution.
C35_OnePipelinePerQuestion ==
    pc = "api" => \A a, b \in requests : SameQuestion(a, b) => a.run = b.run

\* C35 (amended): every /chat request that misses starts a pipeline execution
\* of its own, also next to a waiting request for the same normalized question,
\* and returns the response built from its own execution.
C35_EveryMissRunsItsOwnPipeline ==
    /\ [](pc = "api" => \A a, b \in requests : a # b => a.run # b.run)
    /\ [][ReturnsOwnRun]_vars

C35_Witness ==
    /\ pc = "api"
    /\ \E a, b \in requests : a # b /\ SameQuestion(a, b) /\ a.run # b.run


\* ------------------------------------------- the RAGService's initialization
\* the ingest_document calls that returned
Ingested == { c \in 1..MaxCalls : /\ call.calls[c].method = "ingest_document"
                                   /\ call.calls[c].at = "returned" }

\* C36: under concurrent first calls to the process-wide RAGService the
\* in-memory client and the vector store are created exactly once, and the
\* documents of every completed ingest_document are in the collection behind
\* the vector store the service holds.
C36_InitializedOnce ==
    pc = "rag" =>
        /\ Len(call.clients) <= 1
        /\ call.stores <= 1
        /\ \A c \in Ingested : call.calls[c].used = call._vector_store


\* ------------------------------------------------------------ the gate's flag
\* C37: once risk_sentinel has run, gate_passed is false exactly when
\* audit_result is "fail", which is exactly when compliance_status is
\* "rejected", whatever the audit LLM reported.
C37_GateFlagFollowsVerdict ==
    Count("risk_sentinel") > 0 =>
        /\ (state.gate_passed = PyFalse) <=> (state.audit_result = "fail")
        /\ (state.audit_result = "fail") <=> (state.compliance_status = "rejected")


\* ------------------------------------------------------ the grader's safety net
\* the documents filtered_context holds
Filtered == { state.filtered_context[i] : i \in DOMAIN state.filtered_context }

\* the lines of the batch reply that grade an in-range document relevant; each
\* appends its document to relevant_docs, also when an earlier line named it
RelevantLines ==
    { k \in DOMAIN call.reply.value :
        /\ call.reply.value[k].colon
        /\ call.reply.value[k].number
        /\ call.reply.value[k].index \in DOMAIN state.context
        /\ is_relevant(call.reply.value[k].grade) }

\* lines 85-92: the data-heavy branch of the batch grader replaces relevant_docs
SafetyNetFired ==
    /\ call.grader = "_grade_documents_node"
    /\ call.is_data_heavy
    /\ Cardinality(RelevantLines) < call.safety_net_min_docs

\* C38 (as stated): filtered_context contains every document the grader
\* labelled relevant with an in-range index; the fallback only adds documents.
C38_RelevantNeverDiscarded ==
    GraderAnswered => \A i \in GradedRelevant : state.context[i] \in Filtered

\* C38 (amended): filtered_context contains every document graded relevant,
\* except that when the question is data-heavy and fewer than
\* safety_net_min_docs lines graded a document relevant, the list is replaced
\* by the first safety_net_fallback_docs documents of context, and only the
\* graded-relevant documents among those first ones are kept.
C38_RelevantKeptUnlessBeyondFallback ==
    GraderAnswered =>
        /\ \A i \in GradedRelevant :
              (~SafetyNetFired \/ i <= call.safety_net_fallback_docs)
                  => state.context[i] \in Filtered
        /\ SafetyNetFired =>
              state.filtered_context = Take(state.context, call.safety_net_fallback_docs)

C38_Witness ==
    /\ GraderAnswered
    /\ SafetyNetFired
    /\ \E i, j \in GradedRelevant :
          /\ i <= call.safety_net_fallback_docs
          /\ j > call.safety_net_fallback_docs
          /\ state.context[j] \notin Filtered


\* --------------------------------------------------- /chat/stream and the cache
\* a /chat/stream request starts, or ends with its result event, in this step
StreamStarts ==
    \E request \in requests' \ requests :
        request.route = "chat_stream" /\ request.searched = -1

StreamEnds(request) ==
    /\ request \in requests \ requests'
    /\ request.route = "chat_stream"
    /\ request.searched >= 0

StreamLeavesCache ==
    Serving =>
        /\ StreamStarts => response_cache' = response_cache
        /\ \A request \in requests :
              StreamEnds(request) =>
                  /\ response_cache' = response_cache
                  /\ last'.kind = "chat_stream" =>
                        last'.response = AnswerFrom(request.question, request.searched)

\* C39: POST /chat/stream neither reads nor writes the response cache: it
\* starts a pipeline run whatever the cache holds and yields that run's
\* response, and the cache after a stream is the cache before it, so a later
\* /chat for the question misses as before.
C39_StreamBypassesCache == [][StreamLeavesCache]_vars

C39_Witness ==
    /\ Serving
    /\ last.kind = "chat_stream"
    /\ HasKey(response_cache, cache_key(last.question))
    /\ EntryOf(response_cache, cache_key(last.question)).value # last.response


\* --------------------------------------------------------- AgentFactory.register
\* the step is a call of AgentFactory.register(domain, agent_class)
RegisterStep == call'.last.op = "register"

\* register stores the class under a closed-set domain and touches nothing
\* else; outside the closed set it raises ValueError and stores nothing
RegisterStores ==
    LET domain == call'.last.arg
    IN  IF domain \in DOMAINS
        THEN /\ call'.last.returned = Raised("none")
             /\ call'._registry[domain] # None
             /\ \A d \in DOMAINS \ {domain} : call'._registry[d] = call._registry[d]
        ELSE /\ call'.last.returned = Raised("ValueError")
             /\ call'._registry = call._registry

\* a class that is in the registry stays there until register replaces it,
\* and create(domain), on a kept factory or on the container's, instantiates it
RegisteredClassStays ==
    /\ \A d \in DOMAINS : call._registry[d] # None => call'._registry[d] = call._registry[d]
    /\ \A d \in DOMAINS :
          (call'.last.op \in {"create", "agent_factory.create"}
             /\ call'.last.arg = d /\ call._registry[d] # None)
              => /\ call'.last.returned.outcome = "agent"
                 /\ call'.last.returned.class = call._registry[d]

RegisterIsHonoured ==
    InContainer => IF RegisterStep THEN RegisterStores ELSE RegisteredClassStays

\* C40: a class registered with AgentFactory.register(d, C) for a closed-set d
\* is the class every later create(d) instantiates, on any factory instance
\* and whether register was called before or after the first AgentFactory was
\* constructed; register with a domain outside the closed set raises
\* ValueError and leaves the registry unchanged.
C40_RegisteredClassIsCreated == [][RegisterIsHonoured]_vars

====
